---- MODULE Spec2Model ----
(***************************************************************************)
(* Model of the session-scoped streaming orchestrator of langchain-spike:  *)
(* the in-memory session store (server/src/store.ts), the pub/sub topics   *)
(* (server/src/pubsub.ts), the add_node tool (server/src/tools/addNode.ts),*)
(* the GraphQL resolvers (server/src/schema.ts), the turn orchestrator     *)
(* runAgentStreaming (server/src/agent.ts) and the two agent wrappers      *)
(* (server/src/agents).                                                    *)
(*                                                                         *)
(* Strings are sequences of one-character strings, so that concatenation,  *)
(* slicing, replaceAll and the regular-expression scan of appendToBody are *)
(* computed as the code computes them.  Timestamps (new Date()) are left   *)
(* out: no operation reads them.                                           *)
(***************************************************************************)
EXTENDS Naturals, Integers, Sequences, FiniteSets, TLC

(***************************************************************************)
(* Bounds of the model.                                                    *)
(***************************************************************************)
\* sendMessage calls over all sessions
MaxTurns == 2
\* tokens the reasoning engine streams over all sessions
MaxTokens == 2
\* tool calls the reasoning engine requests over all sessions
MaxInvocations == 2
\* subscriptions opened
MaxSubscribers == 1
\* appendToBody calls on one document, for the properties of appendToBody alone
MaxAppends == 3
\* ensureSession calls made without an id, each of which generates an id
MaxFresh == 2

\* html.slice(0, 80) of the PROGRESS preview
PreviewLen == 80

\* maxIterations of the AgentExecutor (langchain), 25 by default
maxIterations == 25

\* the supersteps graph.invoke runs when no recursionLimit is configured
\* (langgraph): each model call and each tool-execution step is one
recursionLimit == 25

(***************************************************************************)
(* String helpers.                                                         *)
(***************************************************************************)
\* an optional value is the empty sequence (undefined) or <<value>>
Undefined == <<>>

Some(v) == <<v>>

Min(a, b) == IF a < b THEN a ELSE b

\* String.prototype.slice(0, n)
Slice(s, n) == SubSeq(s, 1, Min(n, Len(s)))

RECURSIVE Concat(_)
\* concatenation of a sequence of strings
Concat(ss) == IF ss = <<>> THEN <<>> ELSE Head(ss) \o Concat(Tail(ss))

RECURSIVE Join(_, _)
\* Array.prototype.join(sep)
Join(ss, sep) ==
  IF ss = <<>> THEN <<>>
  ELSE IF Len(ss) = 1 THEN ss[1]
  ELSE ss[1] \o sep \o Join(Tail(ss), sep)

\* s occurs in t as a contiguous substring
IsSubstring(s, t) ==
  \E i \in 0..(Len(t) - Len(s)) : SubSeq(t, i + 1, i + Len(s)) = s

IsPrefix(s, t) == Len(s) <= Len(t) /\ SubSeq(t, 1, Len(s)) = s

(***************************************************************************)
(* The identifiers the callers use.                                        *)
(***************************************************************************)
\* the caller of a call made without a session id; it is no string (its
\* element is not a character), so that it differs from every id
NoSession == <<"undefined">>

\* uuid(): a value no other call returns; the n-th value drawn on behalf of
\* session sessionId, or of NoSession
uuid(sessionId, n) == <<sessionId, n>>

\* the ids the clients choose themselves in most runs
ClientIds == {<<"a">>, <<"b">>}

\* the empty string, which the schema admits as an ID
EmptyId == <<>>

\* the ids ensureSession() generates when it is called without one
FreshIds == {uuid(NoSession, n) : n \in 1..MaxFresh}

\* every key the sessions map can get
AllIds == ClientIds \cup {EmptyId} \cup FreshIds

\* on whose behalf a resolver is called: a session, or none (ensureSession
\* without an id)
Callers == AllIds \cup {NoSession}

Inputs == {<<"h", "i">>}

Tokens == {<<"x">>, <<"y">>}

Frameworks == {"langchain", "langgraph", "other"}

Kinds == {"messageDelta", "toolEvent", "documentUpdated", "modelMessageCompleted"}

(***************************************************************************)
(* pubsub.ts: the topic keys.                                              *)
(***************************************************************************)
messageDelta(sessionId) ==
  <<"M", "E", "S", "S", "A", "G", "E", "_", "D", "E", "L", "T", "A", "_">> \o sessionId

\* a tool-lifecycle topic that leaves the session id out
toolEventShared(sessionId) ==
  <<"T", "O", "O", "L", "_", "E", "V", "E", "N", "T", "_">>

toolEvent(sessionId) ==
  <<"T", "O", "O", "L", "_", "E", "V", "E", "N", "T", "_">> \o sessionId

documentUpdated(sessionId) ==
  <<"D", "O", "C", "U", "M", "E", "N", "T", "_", "U", "P", "D", "A", "T", "E", "D", "_">> \o sessionId

modelMessageCompleted(sessionId) ==
  <<"M", "O", "D", "E", "L", "_", "M", "S", "G", "_", "C", "O", "M", "P", "L", "E", "T", "E", "D", "_">> \o sessionId

\* topics[kind](sessionId)
topics(kind, sessionId) ==
  CASE kind = "messageDelta" -> messageDelta(sessionId)
    [] kind = "toolEvent" -> toolEvent(sessionId)
    [] kind = "documentUpdated" -> documentUpdated(sessionId)
    [] kind = "modelMessageCompleted" -> modelMessageCompleted(sessionId)

(***************************************************************************)
(* addNode.ts: the arguments and the rendering of the fragment.            *)
(***************************************************************************)
\* {tag: "a", text: "x"}
ArgA == [tag |-> <<"a">>, text |-> Some(<<"x">>), attributes |-> Undefined]
\* {tag: "b", text: "y"}
ArgB == [tag |-> <<"b">>, text |-> Some(<<"y">>), attributes |-> Undefined]
\* {tag: "div", text: "hi", attributes: {class: "x\"y"}}
ArgDiv ==
  [tag |-> <<"d", "i", "v">>, text |-> Some(<<"h", "i">>),
   attributes |-> Some(<< <<(<<"c", "l", "a", "s", "s">>), (<<"x", "\"", "y">>)>> >>)]

\* {tag: "p", text: "zz...z"}: a text of PreviewLen characters, so that the
\* fragment is longer than the preview
ArgLong == [tag |-> <<"p">>, text |-> Some([i \in 1..PreviewLen |-> "z"]), attributes |-> Undefined]

\* {tag: ""}
ArgEmpty == [tag |-> <<>>, text |-> Undefined, attributes |-> Undefined]

\* the arguments the reasoning engine passes to add_node in the orchestration
ToolArgs == {ArgA, ArgB, ArgDiv}

\* AddNodeArgsSchema.safeParse(args).success: tag is a string of at least
\* one character; text and attributes are optional
AddNodeArgsSchema(args) == Len(args.tag) >= 1

RECURSIVE replaceFirstQuote(_)
\* v.replace('"', '&quot;'): the first occurrence only
replaceFirstQuote(v) ==
  IF v = <<>> THEN <<>>
  ELSE IF Head(v) = "\"" THEN <<"&", "q", "u", "o", "t", ";">> \o Tail(v)
  ELSE <<Head(v)>> \o replaceFirstQuote(Tail(v))

RECURSIVE replaceAllQuote(_)
\* v.replaceAll('"', '&quot;')
replaceAllQuote(v) ==
  IF v = <<>> THEN <<>>
  ELSE (IF Head(v) = "\"" THEN <<"&", "q", "u", "o", "t", ";">> ELSE <<Head(v)>>)
       \o replaceAllQuote(Tail(v))

\* `${k}="${v.replaceAll('"', '&quot;')}"`
attrPair(kv) == kv[1] \o <<"=", "\"">> \o replaceAllQuote(kv[2]) \o <<"\"">>

\* Object.entries(args.attributes).map(...).join(" "), "" when absent;
\* attributes are given as the sequence of entries in Object.entries order
attrString(args) ==
  IF args.attributes = Undefined THEN <<>>
  ELSE LET entries == args.attributes[1]
       IN Join([i \in 1..Len(entries) |-> attrPair(entries[i])], <<" ">>)

\* the open tag
open(args) ==
  IF Len(attrString(args)) > 0
  THEN <<"<">> \o args.tag \o <<" ">> \o attrString(args) \o <<">">>
  ELSE <<"<">> \o args.tag \o <<">">>

\* args.text ?? ""
textOf(args) == IF args.text = Undefined THEN <<>> ELSE args.text[1]

\* `${open}${text}</${args.tag}>`
\* a fragment without its closing tag
htmlUnclosed(args) == open(args) \o textOf(args)

html(args) == open(args) \o textOf(args) \o <<"<", "/">> \o args.tag \o <<">">>

(***************************************************************************)
(* store.ts.                                                               *)
(***************************************************************************)
\* index of the first ">" of s at or after position i, 0 when there is none
RECURSIVE FirstClose(_, _)
FirstClose(s, i) ==
  IF i > Len(s) THEN 0
  ELSE IF s[i] = ">" THEN i
  ELSE FirstClose(s, i + 1)

RECURSIVE MatchCountFrom(_, _)
\* number of matches of /<[^>]+>/g in s from position i on: a match starts at
\* a "<", takes one or more characters other than ">" and the next ">"
MatchCountFrom(s, i) ==
  IF i > Len(s) THEN 0
  ELSE IF s[i] = "<"
       THEN LET j == FirstClose(s, i + 1)
            IN IF j > i + 1 THEN 1 + MatchCountFrom(s, j + 1)
               ELSE MatchCountFrom(s, i + 1)
       ELSE MatchCountFrom(s, i + 1)

\* a count of the "<" of prev that no ">" answers
matchCountUnclosed(prev) ==
  LET lt == Cardinality({i \in 1..Len(prev) : prev[i] = "<"})
      gt == Cardinality({i \in 1..Len(prev) : prev[i] = ">"})
  IN IF lt > gt THEN lt - gt ELSE 0

\* prev.match(/<[^>]+>/g)?.length ?? 0
matchCount(prev) == MatchCountFrom(prev, 1)

\* the SessionState ensureSession creates
NewSessionState(id) ==
  [document |-> [sessionId |-> id, bodyHtml |-> <<>>], messages |-> <<>>]

\* ensureSession: the id it works on and returns. The argument is optional:
\* Undefined (absent or null) or Some(id), where id may be the empty string;
\* fresh is the value uuid() returns when it is called (sessionId ?? uuid())
ensureSessionId(sessionId, fresh) == IF sessionId = Undefined THEN fresh ELSE sessionId[1]

\* an ensureSession that stores a fresh state whether the id is known or not
ensureSessionReset(ss, sessionId, fresh) ==
  LET id == ensureSessionId(sessionId, fresh)
  IN [x \in DOMAIN ss \cup {id} |-> IF x = id THEN NewSessionState(id) ELSE ss[x]]

\* ensureSession(sessionId) on the map ss: the map after the call
ensureSessionIn(ss, sessionId, fresh) ==
  LET id == ensureSessionId(sessionId, fresh)
  IN IF id \in DOMAIN ss THEN ss ELSE ss @@ (id :> NewSessionState(id))

\* a getOrCreateSessionState that keeps the session asked for only
getOrCreateSessionStateEvicting(ss, id) ==
  [x \in {id} |-> IF id \in DOMAIN ss THEN ss[id] ELSE NewSessionState(id)]

\* getOrCreateSessionState: the map after the call; sessionId is a string,
\* the empty one included, so that ensureSession draws no uuid
getOrCreateSessionState(ss, id) == ensureSessionIn(ss, Some(id), uuid(NoSession, 0))

\* appendMessage: the stored message, with the id uuid() returned
NewMessage(id, sessionId, role, content) ==
  [id |-> id, sessionId |-> sessionId, role |-> role, content |-> content]

\* an appendMessage on a log that every session shares
appendMessageShared(ss, sessionId, message) ==
  LET st == getOrCreateSessionState(ss, sessionId)
  IN [x \in DOMAIN st |-> [st[x] EXCEPT !.messages = Append(@, message)]]

\* an appendMessage that writes over the last message of the log
appendMessageOverLast(ss, sessionId, message) ==
  LET st == getOrCreateSessionState(ss, sessionId)
  IN [st EXCEPT ![sessionId].messages =
        IF @ = <<>> THEN <<message>> ELSE [@ EXCEPT ![Len(@)] = message]]

\* an appendMessage that puts the message at the head of the log
appendMessageAtHead(ss, sessionId, message) ==
  LET st == getOrCreateSessionState(ss, sessionId)
  IN [st EXCEPT ![sessionId].messages = <<message>> \o @]

\* appendMessage: the map after the call
appendMessage(ss, sessionId, message) ==
  LET st == getOrCreateSessionState(ss, sessionId)
  IN [st EXCEPT ![sessionId].messages = Append(@, message)]

\* listMessages
listMessages(ss, sessionId) == getOrCreateSessionState(ss, sessionId)[sessionId].messages

\* getDocument
getDocument(ss, sessionId) == getOrCreateSessionState(ss, sessionId)[sessionId].document

\* appendToBody: the index returned
appendToBodyIndex(ss, sessionId) ==
  matchCount(getOrCreateSessionState(ss, sessionId)[sessionId].document.bodyHtml)

\* appendToBody that puts the fragment before the markup
appendToBodyAtFront(ss, sessionId, fragment) ==
  LET st == getOrCreateSessionState(ss, sessionId)
  IN [st EXCEPT ![sessionId].document.bodyHtml = fragment \o @]

\* appendToBody that assigns the fragment instead of appending it
appendToBodyOverwrite(ss, sessionId, fragment) ==
  LET st == getOrCreateSessionState(ss, sessionId)
  IN [st EXCEPT ![sessionId].document.bodyHtml = fragment]

\* appendToBody: the map after the call
appendToBody(ss, sessionId, fragment) ==
  LET st == getOrCreateSessionState(ss, sessionId)
  IN [st EXCEPT ![sessionId].document.bodyHtml = @ \o fragment]

(***************************************************************************)
(* The state.                                                              *)
(*   framework    per session, the AGENT_FRAMEWORK of the server process   *)
(*                that serves it, read once from the environment; one      *)
(*                process serves every session, except where two           *)
(*                deployments are run side by side to compare them         *)
(*   sessions     the sessions map of store.ts                             *)
(*   turns        per session, the runAgentStreaming calls started, each   *)
(*                with its locals and its position                         *)
(*   subscribers  the async iterators handed out by the Subscription       *)
(*                resolvers, each with the payloads pushed to it           *)
(*   published    per session and turn, every pubsub.publish issued by the *)
(*                turn, in order (history)                                 *)
(*   uuidCount    per session, the number of uuid() values drawn on its    *)
(*                behalf; under NoSession, the number drawn by             *)
(*                ensureSession calls made without an id                   *)
(*   returned     per session, what the ensureSession and sendMessage      *)
(*                calls made for it have returned to their callers, in     *)
(*                order (history); under NoSession, what the ensureSession *)
(*                calls made without an id have returned                   *)
(*   limits       the inputs the environment supplies in this run: how     *)
(*                many sendMessage calls, streamed tokens, requested tool  *)
(*                calls (in all and per reasoning step), subscriptions and *)
(*                ensureSession calls, and which add_node arguments the    *)
(*                engine requests; fixed at the start                      *)
(***************************************************************************)
VARIABLES framework, sessions, turns, subscribers, published, uuidCount, returned, limits

vars == <<framework, sessions, turns, subscribers, published, uuidCount, returned, limits>>

\* the ids a client can pass: the ones it chooses itself in this run and the
\* ones ensureSession calls without an id have generated and returned so far
SessionIds == limits.ids \cup {uuid(NoSession, n) : n \in 1..uuidCount[NoSession]}

RECURSIVE SumOver(_, _)
\* the sum of f[x] for x in S
SumOver(f, S) ==
  IF S = {} THEN 0
  ELSE LET x == CHOOSE y \in S : TRUE
       IN f[x] + SumOver(f, S \ {x})

\* the events of a sequence that satisfy a test
EventsOfKind(evs, kind) == SelectSeq(evs, LAMBDA e : e.kind = kind)

\* turns started so far
NumTurns == SumOver([s \in SessionIds |-> Len(turns[s])], SessionIds)

\* the events of session s published so far, turn after turn
SessionEvents(s) == Concat(published[s])

\* tokens streamed so far
NumTokens ==
  SumOver([s \in SessionIds |-> Len(EventsOfKind(SessionEvents(s), "messageDelta"))], SessionIds)

\* the tool calls of a turn that have not entered addNodeTool yet
PendingCalls(t) == Len(SelectSeq(t.calls, LAMBDA c : c.pc = "called"))

\* add_node invocations requested so far
NumInvocations ==
  SumOver([s \in SessionIds |->
             Len(SelectSeq(SessionEvents(s),
                           LAMBDA e : e.kind = "toolEvent" /\ e.payload.type = "STARTED"))
             + SumOver([k \in 1..Len(turns[s]) |-> PendingCalls(turns[s][k])],
                       1..Len(turns[s]))],
          SessionIds)

(***************************************************************************)
(* pubsub.publish and pubsub.asyncIterableIterator.                        *)
(***************************************************************************)
\* an event: the trigger name, the payload, and for the history the kind of
\* the event, the session and turn on whose behalf it is published and its
\* position among the publishes of that turn
Event(kind, sessionId, turn, n, payload) ==
  [key |-> topics(kind, sessionId), kind |-> kind, origin |-> sessionId,
   turn |-> turn, n |-> n, payload |-> payload]

\* a queue that takes a new payload at its head
pushValueAtHead(queue, ev) == <<ev>> \o queue

\* the queue of an iterator after a payload is pushed to it
pushValue(queue, ev) == Append(queue, ev)

\* a publish that hands the payload to one listener of the trigger name only
deliverToFirst(subs, ev) ==
  [i \in DOMAIN subs |->
     IF subs[i].key = ev.key /\ \A j \in 1..(i - 1) : subs[j].key # ev.key
     THEN [subs[i] EXCEPT !.queue = pushValue(@, ev)]
     ELSE subs[i]]

\* the iterators after pubsub.publish(ev.key, ev.payload): the payload is
\* pushed to every iterator listening on that trigger name
deliver(subs, ev) ==
  [i \in DOMAIN subs |->
     IF subs[i].key = ev.key
     THEN [subs[i] EXCEPT !.queue = pushValue(@, ev)]
     ELSE subs[i]]

\* pubsub.publish(topics[kind](sessionId), payload) by turn k of the session
Publish(sessionId, k, kind, payload) ==
  LET ev == Event(kind, sessionId, k, Len(published[sessionId][k]) + 1, payload)
  IN /\ subscribers' = deliver(subscribers, ev)
     /\ published' = [published EXCEPT ![sessionId][k] = Append(@, ev)]

\* the runs explored: each bounds the inputs of one kind of scenario
Limits(turns_, tokens_, calls_, parallel_, subs_, ensures_, args_) ==
  [turns |-> turns_, tokens |-> tokens_, calls |-> calls_, parallel |-> parallel_,
   subs |-> subs_, ensures |-> ensures_, args |-> args_, kinds |-> Kinds,
   ids |-> ClientIds]

\* the run l with subscriptions to the given kinds of event only
Watching(kinds_, l) == [l EXCEPT !.kinds = kinds_]

\* the run l with clients that pass the given ids
Calling(ids_, l) == [l EXCEPT !.ids = ids_]

Scenarios ==
  { \* overlapping turns of one or two sessions, with tokens
    Limits(MaxTurns, 2, 0, 1, 0, 0, ToolArgs),
    \* two turns with a token, and subscribers
    Watching({"messageDelta"}, Limits(2, 1, 0, 1, MaxSubscribers, 0, {ArgA})),
    \* two turns with a tool call, and a subscriber
    Limits(2, 0, 1, 1, 1, 0, {ArgA}),
    \* one turn with tokens and tool calls, one call per reasoning step
    Limits(1, MaxTokens, 2, 1, 0, 0, ToolArgs),
    Limits(1, 1, MaxInvocations, 1, 0, 0, ToolArgs),
    \* one turn with tokens and a tool call, and a subscriber
    Limits(1, 2, 1, 1, 1, 0, {ArgA}),
    \* overlapping turns with tool calls
    Limits(2, 0, 2, 1, 0, 0, {ArgA, ArgDiv}),
    \* one turn whose reasoning step requests two tool calls at once
    Limits(1, 0, 2, 2, 0, 0, {ArgA, ArgB}),
    \* one turn with a tool call, and ensureSession and Query calls
    Calling({<<"a">>, EmptyId}, Limits(1, 0, 1, 1, 0, 2, {ArgA})),
    \* ensureSession calls with and without an id, and Query calls
    Calling({<<"a">>, EmptyId}, Limits(0, 0, 0, 1, 0, MaxFresh, {ArgA})),
    \* one turn whose tool call has an empty tag
    Limits(1, 0, 1, 1, 0, 0, {ArgEmpty}),
    \* one reasoning step with two calls, one of which may have an empty tag
    Limits(1, 0, 2, 2, 0, 0, {ArgA, ArgEmpty}),
    \* one turn with tokens, and two subscribers
    Watching({"messageDelta"}, Limits(1, 2, 0, 1, 2, 0, {ArgA})),
    \* one turn whose reasoning step requests two tool calls at once, and a
    \* subscriber
    Watching({"documentUpdated"}, Limits(1, 0, 2, 2, 1, 0, {ArgA})),
    \* one call whose fragment is longer than the preview
    Limits(1, 0, 1, 1, 0, 0, {ArgLong}),
    \* one turn in which every reasoning step requests a tool call
    Limits(1, 0, maxIterations + 1, 1, 0, 0, {ArgA}) }

Init ==
  /\ framework \in {[s \in AllIds |-> fw] : fw \in Frameworks}
  /\ limits \in Scenarios
  /\ sessions = [s \in {} |-> 0]
  /\ turns = [s \in AllIds |-> <<>>]
  /\ subscribers = <<>>
  /\ published = [s \in AllIds |-> <<>>]
  /\ uuidCount = [s \in Callers |-> 0]
  /\ returned = [s \in Callers |-> <<>>]

(***************************************************************************)
(* schema.ts: the resolvers.                                               *)
(***************************************************************************)
\* what a resolver hands back to its caller: the value, no error
Returns(op, value) == [op |-> op, value |-> value, error |-> FALSE]

\* the calls of resolver op made for session s that have returned
ReturnsOf(s, op) == SelectSeq(returned[s], LAMBDA r : r.op = op)

\* the fields of Query
QueryFields == {"session", "document", "messages"}

\* ensureSession and Query calls made so far
NumEnsures ==
  SumOver([s \in Callers |->
             Len(SelectSeq(returned[s], LAMBDA r : r.op \in {"ensureSession"} \cup QueryFields))],
          Callers)

\* Mutation.ensureSession(sessionId): the id is returned; without a
\* sessionId a uuid is drawn, and the session is created under it
EnsureSession(sessionId) ==
  /\ NumEnsures < limits.ensures
  /\ sessionId = Undefined => uuidCount[NoSession] < MaxFresh
  /\ LET fresh == uuid(NoSession, uuidCount[NoSession] + 1)
         caller == IF sessionId = Undefined THEN NoSession ELSE sessionId[1]
     IN /\ sessions' = ensureSessionIn(sessions, sessionId, fresh)
        /\ returned' = [returned EXCEPT
                          ![caller] = Append(@, Returns("ensureSession",
                                                        ensureSessionId(sessionId, fresh)))]
  /\ uuidCount' = IF sessionId = Undefined
                  THEN [uuidCount EXCEPT ![NoSession] = @ + 1]
                  ELSE uuidCount
  /\ UNCHANGED <<framework, limits, turns, subscribers, published>>

\* what Query.<field>(sessionId) returns from the map ss
queryResult(ss, field, sessionId) ==
  CASE field = "session" ->
         [id |-> sessionId, messages |-> listMessages(ss, sessionId),
          document |-> getDocument(ss, sessionId)]
    [] field = "document" -> getDocument(ss, sessionId)
    [] field = "messages" -> listMessages(ss, sessionId)

\* Query.session, Query.document, Query.messages: each goes through
\* getOrCreateSessionState, so an unknown id gets an empty session
Query(field, s) ==
  /\ NumEnsures < limits.ensures
  /\ sessions' = getOrCreateSessionState(sessions, s)
  /\ returned' = [returned EXCEPT ![s] = Append(@, Returns(field, queryResult(sessions, field, s)))]
  /\ UNCHANGED <<framework, limits, turns, subscribers, published, uuidCount>>

\* per turn of session s, the events of a kind published so far
PublishedCounts(kind, s) ==
  [k \in 1..Len(published[s]) |-> Len(EventsOfKind(published[s][k], kind))]

\* an iterator that starts with every event already published on its key
NewIteratorWithReplay(kind, s, backlog) ==
  [key |-> topics(kind, s), kind |-> kind, sessionId |-> s,
   queue |-> EventsOfKind(SessionEvents(s), kind), received |-> <<>>,
   since |-> PublishedCounts(kind, s)]

\* the iterator pubsub.asyncIterableIterator(key) returns: queue holds the
\* payloads pushed and not yet pulled; for the history, received holds the
\* payloads next() has returned and since the events of the key that were
\* published before the iterator existed
NewIterator(kind, s, backlog) ==
  [key |-> topics(kind, s), kind |-> kind, sessionId |-> s,
   queue |-> backlog, received |-> <<>>, since |-> PublishedCounts(kind, s)]

\* Subscription.<kind>.subscribe(sessionId): the iterator listens from now
\* on and starts empty
Subscribe(kind, s) ==
  /\ Len(subscribers) < limits.subs
  /\ kind \in limits.kinds
  /\ subscribers' = Append(subscribers, NewIterator(kind, s, <<>>))
  /\ UNCHANGED <<framework, limits, returned, sessions, turns, published, uuidCount>>

\* next() on iterator i: the oldest payload of its queue is returned
IteratorNext(i) ==
  /\ i \in DOMAIN subscribers
  /\ subscribers[i].queue # <<>>
  /\ subscribers' = [subscribers EXCEPT ![i].received = Append(@, Head(subscribers[i].queue)),
                                        ![i].queue = Tail(@)]
  /\ UNCHANGED <<framework, limits, returned, sessions, turns, published, uuidCount>>

\* createAgent: whether the factory returns a wrapper (it throws otherwise)
createAgentOk(fw) == fw \in {"langchain", "langgraph"}

\* a history that keeps the message just appended
chatHistoryWithCurrent(allMessages) ==
  [i \in 1..Len(allMessages) |->
     [role |-> allMessages[i].role, content |-> allMessages[i].content]]

\* a history of the USER messages only
chatHistoryUserOnly(allMessages) ==
  LET users == SelectSeq(SubSeq(allMessages, 1, Len(allMessages) - 1),
                         LAMBDA m : m.role = "USER")
  IN [i \in 1..Len(users) |-> [role |-> users[i].role, content |-> users[i].content]]

\* allMessages.slice(0, -1).map(m => ({role, content}))
chatHistory(allMessages) ==
  [i \in 1..(Len(allMessages) - 1) |->
     [role |-> allMessages[i].role, content |-> allMessages[i].content]]

\* one decision of the reasoning engine, for the history of a turn: a token
\* streamed, a message with tool calls, a final message, or a failure
EngineStep(step, token, calls) == [step |-> step, token |-> token, calls |-> calls]

\* the locals of a runAgentStreaming call that has just been started: agent
\* is the framework of the wrapper createAgent was asked for, script the
\* decisions the reasoning engine has taken in the run (history), overlaps
\* whether an earlier run of the session was still going on at the start
\* (history, set by sendMessage)
NewTurn(ss, s, input) ==
  [input |-> input,
   pc |-> IF createAgentOk(framework[s]) THEN "planning" ELSE "failed",
   history |-> IF createAgentOk(framework[s]) THEN chatHistory(listMessages(ss, s)) ELSE <<>>,
   tokenCount |-> 0, allTokens |-> <<>>,
   content |-> <<>>, calls |-> <<>>, iterations |-> 0, toolCalls |-> <<>>,
   onComplete |-> 0,
   agent |-> framework[s],
   script |-> <<>>,
   overlaps |-> FALSE,
   error |-> IF createAgentOk(framework[s]) THEN "none" ELSE "Unknown agent framework"]

\* a sendMessage that lets a run that has already failed reject its result
sendMessageResultAwaited(msg, run) ==
  [op |-> "sendMessage", value |-> msg, error |-> run.pc = "failed"]

\* return msg: the promise of the run is not awaited, its rejection is
\* caught and logged
sendMessageResult(msg, run) == Returns("sendMessage", msg)

\* a run of session s is going on
Running(s) == \E j \in 1..Len(turns[s]) : turns[s][j].pc \notin {"done", "failed"}

\* a sendMessage that starts the turn and returns a message it has not stored
SendMessageUnrecorded(s, input) ==
  /\ NumTurns < limits.turns
  /\ LET msg == NewMessage(uuid(s, uuidCount[s] + 1), s, "USER", input)
         ss == ensureSessionIn(sessions, Some(s), uuid(NoSession, 0))
     IN /\ sessions' = ss
        /\ turns' = [turns EXCEPT ![s] = Append(@, [NewTurn(ss, s, input) EXCEPT
                                                    !.overlaps = Running(s)])]
        /\ returned' = [returned EXCEPT
                          ![s] = Append(@, sendMessageResult(msg, NewTurn(ss, s, input)))]
  /\ uuidCount' = [uuidCount EXCEPT ![s] = @ + 1]
  /\ published' = [published EXCEPT ![s] = Append(@, <<>>)]
  /\ UNCHANGED <<framework, limits, subscribers>>

\* Mutation.sendMessage: appendMessage of the USER message, then the
\* synchronous part of runAgentStreaming up to its first await; msg is
\* returned
SendMessage(s, input) ==
  /\ NumTurns < limits.turns
  /\ LET msg == NewMessage(uuid(s, uuidCount[s] + 1), s, "USER", input)
         ss == appendMessage(sessions, s, msg)
     IN /\ sessions' = ss
        /\ turns' = [turns EXCEPT ![s] = Append(@, [NewTurn(ss, s, input) EXCEPT
                                                    !.overlaps = Running(s)])]
        /\ returned' = [returned EXCEPT
                          ![s] = Append(@, sendMessageResult(msg, NewTurn(ss, s, input)))]
  /\ uuidCount' = [uuidCount EXCEPT ![s] = @ + 1]
  /\ published' = [published EXCEPT ![s] = Append(@, <<>>)]
  /\ UNCHANGED <<framework, limits, subscribers>>

(***************************************************************************)
(* agents: one run of executeStreaming, driven by the reasoning engine.    *)
(***************************************************************************)
\* an onToken that accumulates the token and does not publish it
ModelTokenUnpublished(s, k, token) ==
  /\ k \in 1..Len(turns[s])
  /\ turns[s][k].pc = "planning"
  /\ NumTokens < limits.tokens
  /\ turns[s][k].tokenCount < limits.tokens
  /\ turns' = [turns EXCEPT ![s][k].tokenCount = @ + 1,
                            ![s][k].allTokens = @ \o token,
                            ![s][k].content = @ \o token]
  /\ UNCHANGED <<framework, limits, returned, sessions, subscribers, published, uuidCount>>

\* handleLLMNewToken -> callbacks.onToken: the engine streams one token
ModelToken(s, k, token) ==
  /\ k \in 1..Len(turns[s])
  /\ turns[s][k].pc = "planning"
  /\ NumTokens < limits.tokens
  /\ turns' = [turns EXCEPT ![s][k].tokenCount = @ + 1,
                            ![s][k].allTokens = @ \o token,
                            ![s][k].content = @ \o token,
                            ![s][k].script = Append(@, EngineStep("token", token, <<>>))]
  /\ Publish(s, k, "messageDelta", [contentDelta |-> token])
  /\ UNCHANGED <<framework, limits, returned, sessions, uuidCount>>

\* a tool call that the reasoning step requested and that is not running yet
NewCall(args) == [args |-> args, pc |-> "called", id |-> <<>>, html |-> <<>>, index |-> 0]

\* the sequences of 1..n tool calls a reasoning step can request
CallSeqs(n) == UNION {[1..m -> limits.args] : m \in 1..n}

\* the supersteps a langgraph run has used when its model call returns:
\* one per model call and one per tool-execution step
Supersteps(t) == 2 * t.iterations + 1

\* graph.invoke is out of steps: the tool-execution step the model call
\* asks for would exceed the recursion limit
OutOfSteps(fw, t) == fw = "langgraph" /\ Supersteps(t) >= recursionLimit

\* the model call returns a message with tool calls: the run goes to the
\* tool-execution step, or graph.invoke throws GraphRecursionError
ModelRequestsTools(s, k, argsSeq) ==
  /\ k \in 1..Len(turns[s])
  /\ turns[s][k].pc = "planning"
  /\ NumInvocations + Len(argsSeq) <= limits.calls
  /\ IF OutOfSteps(framework[s], turns[s][k])
     THEN turns' = [turns EXCEPT ![s][k].pc = "failed",
                                 ![s][k].error = "GraphRecursionError",
                                 ![s][k].script = Append(@, EngineStep("tools", <<>>, argsSeq))]
     ELSE turns' = [turns EXCEPT ![s][k].pc = "tools",
                                 ![s][k].script = Append(@, EngineStep("tools", <<>>, argsSeq)),
                                 ![s][k].calls = [i \in 1..Len(argsSeq) |-> NewCall(argsSeq[i])]]
  /\ UNCHANGED <<framework, limits, returned, sessions, subscribers, published, uuidCount>>

\* a final model message that invokes onComplete and leaves the run open
ModelAnswersStaysOpen(s, k) ==
  /\ k \in 1..Len(turns[s])
  /\ turns[s][k].pc = "planning"
  /\ turns' = [turns EXCEPT ![s][k].onComplete = @ + 1,
                            ![s][k].script = Append(@, EngineStep("answer", <<>>, <<>>))]
  /\ UNCHANGED <<framework, limits, returned, sessions, subscribers, published, uuidCount>>

\* the model call returns a message without tool calls: the run ends, and
\* executeStreaming invokes callbacks.onComplete
ModelAnswers(s, k) ==
  /\ k \in 1..Len(turns[s])
  /\ turns[s][k].pc = "planning"
  /\ turns' = [turns EXCEPT ![s][k].pc = "completing",
                            ![s][k].onComplete = @ + 1,
                            ![s][k].script = Append(@, EngineStep("answer", <<>>, <<>>))]
  /\ UNCHANGED <<framework, limits, returned, sessions, subscribers, published, uuidCount>>

\* a failure whose handler publishes the marker all the same
ModelFailsAndMarks(s, k) ==
  /\ k \in 1..Len(turns[s])
  /\ turns[s][k].pc = "planning"
  /\ turns' = [turns EXCEPT ![s][k].pc = "failed"]
  /\ Publish(s, k, "modelMessageCompleted", [done |-> TRUE])
  /\ UNCHANGED <<framework, limits, returned, sessions, uuidCount>>

\* a failure whose handler empties the document of the session
ModelFailsRollsBack(s, k) ==
  /\ k \in 1..Len(turns[s])
  /\ turns[s][k].pc = "planning"
  /\ turns' = [turns EXCEPT ![s][k].pc = "failed", ![s][k].error = "model call failed",
                            ![s][k].script = Append(@, EngineStep("fail", <<>>, <<>>))]
  /\ sessions' = [sessions EXCEPT ![s].document.bodyHtml = <<>>]
  /\ UNCHANGED <<framework, limits, returned, subscribers, published, uuidCount>>

\* the model call throws: executeStreaming rejects, runAgentStreaming logs
\* and rethrows, and sendMessage's catch logs
ModelFails(s, k) ==
  /\ k \in 1..Len(turns[s])
  /\ turns[s][k].pc = "planning"
  /\ turns' = [turns EXCEPT ![s][k].pc = "failed", ![s][k].error = "model call failed",
                            ![s][k].script = Append(@, EngineStep("fail", <<>>, <<>>))]
  /\ UNCHANGED <<framework, limits, returned, sessions, subscribers, published, uuidCount>>

(***************************************************************************)
(* addNode.ts: addNodeTool, one action per stretch between two awaits.     *)
(***************************************************************************)
\* a call that goes on only while its turn is in the tool-execution step
CallAtWhileRunning(s, k, c, pc) ==
  /\ k \in 1..Len(turns[s])
  /\ turns[s][k].pc = "tools"
  /\ c \in 1..Len(turns[s][k].calls)
  /\ turns[s][k].calls[c].pc = pc

\* the call c of turn k of session s is at position pc. The calls of a step
\* run as promises of their own: when the run has been rejected because the
\* wrapper refused the arguments of one call, the others go on
CallAt(s, k, c, pc) ==
  /\ k \in 1..Len(turns[s])
  /\ \/ turns[s][k].pc = "tools"
     \/ turns[s][k].pc = "failed" /\ turns[s][k].error = "ToolInputParsingException"
  /\ c \in 1..Len(turns[s][k].calls)
  /\ turns[s][k].calls[c].pc = pc

\* a tool-lifecycle payload
ToolCallEvent(id, sessionId, args, type) ==
  [id |-> id, sessionId |-> sessionId, name |-> "add_node", args |-> args, type |-> type]

\* the STARTED payload: the raw arguments
startedEvent(id, sessionId, args) == ToolCallEvent(id, sessionId, args, "STARTED")

\* a PROGRESS payload that carries the whole fragment
progressEventWhole(id, sessionId, fragment) ==
  ToolCallEvent(id, sessionId, [htmlPreview |-> fragment], "PROGRESS")

\* the PROGRESS payload: the preview of the fragment
progressEvent(id, sessionId, fragment) ==
  ToolCallEvent(id, sessionId, [htmlPreview |-> Slice(fragment, PreviewLen)], "PROGRESS")

\* a COMPLETED payload that does not reuse the id of the invocation
completedEventOtherId(id, sessionId, index) ==
  ToolCallEvent(uuid(sessionId, 0), sessionId, [index |-> index], "COMPLETED")

\* the COMPLETED payload: the index
completedEvent(id, sessionId, index) ==
  ToolCallEvent(id, sessionId, [index |-> index], "COMPLETED")

\* the documentUpdated payload
documentUpdatedEvent(id, sessionId, fragment, index) ==
  [id |-> id, sessionId |-> sessionId, html |-> fragment, index |-> index]

\* whether the tool wrapper hands the arguments to func: the
\* DynamicStructuredTool of LangChainAgent parses them with the schema
\* first, the plain object of LangGraphAgent invokes func directly
ToolAccepts(fw, args) == fw = "langchain" => AddNodeArgsSchema(args)

\* the DynamicStructuredTool rejects the arguments: func is not called and
\* executor.invoke rejects
ToolRejected(s, k, c) ==
  /\ CallAt(s, k, c, "called")
  /\ ~ToolAccepts(framework[s], turns[s][k].calls[c].args)
  /\ turns' = [turns EXCEPT ![s][k].pc = "failed",
                            ![s][k].error = "ToolInputParsingException",
                            ![s][k].calls[c].pc = "rejected"]
  /\ UNCHANGED <<framework, limits, returned, sessions, subscribers, published, uuidCount>>

\* const id = uuid(); publish STARTED
ToolStarted(s, k, c) ==
  /\ CallAt(s, k, c, "called")
  /\ ToolAccepts(framework[s], turns[s][k].calls[c].args)
  /\ LET id == uuid(s, uuidCount[s] + 1)
         call == turns[s][k].calls[c]
     IN /\ turns' = [turns EXCEPT ![s][k].calls[c].pc = "started",
                                  ![s][k].calls[c].id = id]
        /\ Publish(s, k, "toolEvent", startedEvent(id, s, call.args))
  /\ uuidCount' = [uuidCount EXCEPT ![s] = @ + 1]
  /\ UNCHANGED <<framework, limits, returned, sessions>>

\* render the fragment; publish PROGRESS
ToolProgress(s, k, c) ==
  /\ CallAt(s, k, c, "started")
  /\ LET call == turns[s][k].calls[c]
         fragment == html(call.args)
     IN /\ turns' = [turns EXCEPT ![s][k].calls[c].pc = "progress",
                                  ![s][k].calls[c].html = fragment]
        /\ Publish(s, k, "toolEvent", progressEvent(call.id, s, fragment))
  /\ UNCHANGED <<framework, limits, returned, sessions, uuidCount>>

\* an add_node that commits the fragment and publishes no document delta
ToolCommitUnpublished(s, k, c) ==
  /\ CallAt(s, k, c, "progress")
  /\ LET call == turns[s][k].calls[c]
         index == appendToBodyIndex(sessions, s)
     IN /\ sessions' = appendToBody(sessions, s, call.html)
        /\ turns' = [turns EXCEPT ![s][k].calls[c].pc = "committed",
                                  ![s][k].calls[c].index = index]
  /\ UNCHANGED <<framework, limits, returned, uuidCount, subscribers, published>>

\* appendToBody; publish documentUpdated
ToolCommit(s, k, c) ==
  /\ CallAt(s, k, c, "progress")
  /\ LET call == turns[s][k].calls[c]
         index == appendToBodyIndex(sessions, s)
     IN /\ sessions' = appendToBody(sessions, s, call.html)
        /\ turns' = [turns EXCEPT ![s][k].calls[c].pc = "committed",
                                  ![s][k].calls[c].index = index]
        /\ Publish(s, k, "documentUpdated",
                   documentUpdatedEvent(call.id, s, call.html, index))
  /\ UNCHANGED <<framework, limits, returned, uuidCount>>

\* publish COMPLETED
ToolCompleted(s, k, c) ==
  /\ CallAt(s, k, c, "committed")
  /\ LET call == turns[s][k].calls[c]
     IN /\ turns' = [turns EXCEPT ![s][k].calls[c].pc = "completed"]
        /\ Publish(s, k, "toolEvent", completedEvent(call.id, s, call.index))
  /\ UNCHANGED <<framework, limits, returned, sessions, uuidCount>>

\* the summary of a finished tool call in AgentResponse.toolCalls: the
\* observation is JSON.stringify({ok: true, index})
toolCallSummary(call) ==
  [name |-> "add_node", args |-> call.args, result |-> [ok |-> TRUE, index |-> call.index]]

\* what executeStreaming reports of the finished tool calls: the
\* intermediate steps under langchain, nothing under langgraph
reportedToolCalls(fw, calls) ==
  IF fw = "langchain" THEN [i \in 1..Len(calls) |-> toolCallSummary(calls[i])] ELSE <<>>

\* the output of an AgentExecutor that stops at maxIterations
StoppedOutput ==
  <<"A", "g", "e", "n", "t", " ", "s", "t", "o", "p", "p", "e", "d", " ", "d", "u", "e", " ", "t", "o", " ", "m", "a", "x", " ", "i", "t", "e", "r", "a", "t", "i", "o", "n", "s", ".">>

\* the AgentExecutor loop ends after this round: iterations has reached
\* maxIterations
StopsAtCap(fw, t) == fw = "langchain" /\ t.iterations + 1 >= maxIterations

\* every tool call of the step has returned: back to the reasoning step; an
\* AgentExecutor at maxIterations returns its stopped response instead, and
\* executeStreaming invokes callbacks.onComplete
ToolsDone(s, k) ==
  /\ k \in 1..Len(turns[s])
  /\ turns[s][k].pc = "tools"
  /\ \A c \in 1..Len(turns[s][k].calls) : turns[s][k].calls[c].pc = "completed"
  /\ turns' = [turns EXCEPT ![s][k].pc = IF StopsAtCap(framework[s], turns[s][k])
                                         THEN "completing" ELSE "planning",
                            ![s][k].onComplete = IF StopsAtCap(framework[s], turns[s][k])
                                                 THEN @ + 1 ELSE @,
                            ![s][k].iterations = @ + 1,
                            ![s][k].content = IF StopsAtCap(framework[s], turns[s][k])
                                              THEN StoppedOutput ELSE <<>>,
                            ![s][k].toolCalls = @ \o reportedToolCalls(framework[s], turns[s][k].calls),
                            ![s][k].calls = <<>>]
  /\ UNCHANGED <<framework, limits, returned, sessions, subscribers, published, uuidCount>>

(***************************************************************************)
(* agent.ts: runAgentStreaming after executeStreaming has returned.        *)
(***************************************************************************)
\* a result that is every token streamed in the turn
resultContentAllTokens(t) == t.allTokens

\* result.content: the content of the last model message
resultContent(t) == t.content

\* a turn that appends and publishes its marker while the run is going on
TurnFinishEarly(s, k) ==
  /\ k \in 1..Len(turns[s])
  /\ turns[s][k].pc \in {"planning", "completing"}
  /\ \A i \in 1..Len(published[s][k]) : published[s][k][i].kind # "modelMessageCompleted"
  /\ LET msg == NewMessage(uuid(s, uuidCount[s] + 1), s, "MODEL", turns[s][k].content)
     IN sessions' = appendMessage(sessions, s, msg)
  /\ uuidCount' = [uuidCount EXCEPT ![s] = @ + 1]
  /\ turns' = turns
  /\ Publish(s, k, "modelMessageCompleted", [done |-> TRUE])
  /\ UNCHANGED <<framework, limits, returned>>

\* a completion that publishes the marker and appends no MODEL message
TurnFinishWithoutMessage(s, k) ==
  /\ k \in 1..Len(turns[s])
  /\ turns[s][k].pc = "completing"
  /\ turns' = [turns EXCEPT ![s][k].pc = "done"]
  /\ Publish(s, k, "modelMessageCompleted", [done |-> TRUE])
  /\ UNCHANGED <<framework, limits, returned, sessions, uuidCount>>

\* a completion that appends the MODEL message twice
TurnFinishAnswersTwice(s, k) ==
  /\ k \in 1..Len(turns[s])
  /\ turns[s][k].pc = "completing"
  /\ LET msg == NewMessage(uuid(s, uuidCount[s] + 1), s, "MODEL", resultContent(turns[s][k]))
     IN sessions' = appendMessage(appendMessage(sessions, s, msg), s, msg)
  /\ uuidCount' = [uuidCount EXCEPT ![s] = @ + 1]
  /\ turns' = [turns EXCEPT ![s][k].pc = "done"]
  /\ Publish(s, k, "modelMessageCompleted", [done |-> TRUE])
  /\ UNCHANGED <<framework, limits, returned>>

\* a completion that also writes the answer into the document
TurnFinishWritesDocument(s, k) ==
  /\ k \in 1..Len(turns[s])
  /\ turns[s][k].pc = "completing"
  /\ LET msg == NewMessage(uuid(s, uuidCount[s] + 1), s, "MODEL", resultContent(turns[s][k]))
     IN sessions' = appendToBody(appendMessage(sessions, s, msg), s, <<"!">>)
  /\ uuidCount' = [uuidCount EXCEPT ![s] = @ + 1]
  /\ turns' = [turns EXCEPT ![s][k].pc = "done"]
  /\ Publish(s, k, "modelMessageCompleted", [done |-> TRUE])
  /\ UNCHANGED <<framework, limits, returned>>

\* appendMessage of the MODEL message; publish modelMessageCompleted
TurnFinish(s, k) ==
  /\ k \in 1..Len(turns[s])
  /\ turns[s][k].pc = "completing"
  /\ LET msg == NewMessage(uuid(s, uuidCount[s] + 1), s, "MODEL", resultContent(turns[s][k]))
     IN sessions' = appendMessage(sessions, s, msg)
  /\ uuidCount' = [uuidCount EXCEPT ![s] = @ + 1]
  /\ turns' = [turns EXCEPT ![s][k].pc = "done"]
  /\ Publish(s, k, "modelMessageCompleted", [done |-> TRUE])
  /\ UNCHANGED <<framework, limits, returned>>

Next ==
  \/ \E sessionId \in {Undefined} \cup {Some(s) : s \in SessionIds} :
       EnsureSession(sessionId)
  \/ \E field \in QueryFields, s \in SessionIds : Query(field, s)
  \/ \E kind \in Kinds, s \in SessionIds : Subscribe(kind, s)
  \/ \E i \in 1..limits.subs : IteratorNext(i)
  \/ \E s \in SessionIds, input \in Inputs : SendMessage(s, input)
  \/ \E s \in SessionIds, k \in 1..limits.turns, token \in Tokens : ModelToken(s, k, token)
  \/ \E s \in SessionIds, k \in 1..limits.turns, argsSeq \in CallSeqs(limits.parallel) :
       ModelRequestsTools(s, k, argsSeq)
  \/ \E s \in SessionIds, k \in 1..limits.turns : ModelAnswers(s, k)
  \/ \E s \in SessionIds, k \in 1..limits.turns : ModelFails(s, k)
  \/ \E s \in SessionIds, k \in 1..limits.turns, c \in 1..limits.parallel : ToolRejected(s, k, c)
  \/ \E s \in SessionIds, k \in 1..limits.turns, c \in 1..limits.parallel : ToolStarted(s, k, c)
  \/ \E s \in SessionIds, k \in 1..limits.turns, c \in 1..limits.parallel : ToolProgress(s, k, c)
  \/ \E s \in SessionIds, k \in 1..limits.turns, c \in 1..limits.parallel : ToolCommit(s, k, c)
  \/ \E s \in SessionIds, k \in 1..limits.turns, c \in 1..limits.parallel : ToolCompleted(s, k, c)
  \/ \E s \in SessionIds, k \in 1..limits.turns : ToolsDone(s, k)
  \/ \E s \in SessionIds, k \in 1..limits.turns : TurnFinish(s, k)

Spec == Init /\ [][Next]_vars

(***************************************************************************)
(* Vocabulary of the properties.                                           *)
(***************************************************************************)
\* every payload pushed to iterator i so far, pulled or not
Delivered(i) == subscribers[i].received \o subscribers[i].queue

\* the turns started so far
AllTurns == {sk \in SessionIds \X (1..limits.turns) : sk[2] <= Len(turns[sk[1]])}

\* a turn whose runAgentStreaming call has neither returned nor thrown
InFlight(t) == t.pc \notin {"done", "failed"}

\* the events a turn has published
TurnLog(s, k) == published[s][k]

IsMarker(e) == e.kind = "modelMessageCompleted"

\* the messages of a role in the log of session s
MessagesOfRole(s, role) ==
  IF s \in DOMAIN sessions
  THEN SelectSeq(sessions[s].messages, LAMBDA m : m.role = role)
  ELSE <<>>

\* the turns of session s at position pc
TurnsAt(s, pc) == {k \in 1..Len(turns[s]) : turns[s][k].pc = pc}

\* the events of a log that belong to the add_node invocation id
EventsOfInvocation(log, id) ==
  SelectSeq(log, LAMBDA e : e.kind \in {"toolEvent", "documentUpdated"} /\ e.payload.id = id)

\* what an event is in the life of an invocation
Stage(e) == IF e.kind = "documentUpdated" THEN "DOCUMENT" ELSE e.payload.type

Lifecycle == <<"STARTED", "PROGRESS", "DOCUMENT", "COMPLETED">>

\* the ids of the invocations that have published in a log
InvocationIds(log) ==
  {log[i].payload.id : i \in {j \in 1..Len(log) : log[j].kind \in {"toolEvent", "documentUpdated"}}}

\* C1: at most one turn is in flight per session at any time.
C1_AtMostOneTurnInFlight ==
  \A s \in SessionIds :
    Cardinality({k \in 1..Len(turns[s]) : InFlight(turns[s][k])}) <= 1

\* C2: the turn-completion marker is the last event a turn publishes: in
\* every state, a marker in a turn's history is its last entry.
C2_MarkerIsLast ==
  \A sk \in AllTurns :
    LET log == TurnLog(sk[1], sk[2])
    IN \A i \in 1..Len(log) : IsMarker(log[i]) => i = Len(log)

\* a finished turn that streamed tokens and ran a tool before its marker
C2_Witness ==
  \E sk \in AllTurns :
    LET log == TurnLog(sk[1], sk[2])
    IN /\ turns[sk[1]][sk[2]].pc = "done"
       /\ Len(log) >= 6
       /\ IsMarker(log[Len(log)])
       /\ \E i \in 1..Len(log) : log[i].kind = "messageDelta"
       /\ \E i \in 1..Len(log) : log[i].kind = "documentUpdated"

\* C3: a turn whose run returned appends one MODEL message holding the
\* run's final text and publishes one marker, the message being in the log
\* when the marker is out: a turn has a marker exactly when it is done, never
\* two; the MODEL messages of a session are as many as its done turns; and
\* each done turn has a MODEL message with the content of its last model
\* message.
C3_SuccessAppendsThenMarks ==
  \A s \in SessionIds :
    /\ Len(MessagesOfRole(s, "MODEL")) = Cardinality(TurnsAt(s, "done"))
    /\ \A k \in 1..Len(turns[s]) :
         LET t == turns[s][k]
             markers == Len(SelectSeq(TurnLog(s, k), IsMarker))
         IN /\ markers = (IF t.pc = "done" THEN 1 ELSE 0)
            /\ t.pc = "done" =>
                 \E i \in 1..Len(sessions[s].messages) :
                   /\ sessions[s].messages[i].role = "MODEL"
                   /\ sessions[s].messages[i].sessionId = s
                   /\ sessions[s].messages[i].content = t.content

\* a done turn whose final text differs from all the tokens it streamed
C3_Witness ==
  \E sk \in AllTurns :
    LET t == turns[sk[1]][sk[2]]
    IN /\ t.pc = "done"
       /\ t.content # <<>>
       /\ t.content # t.allTokens

\* C4: a turn whose run failed has no marker and no MODEL message, and its
\* USER message stays: the USER messages of a session are the inputs of its
\* turns, in order, and its MODEL messages are as many as its done turns.
C4_FailureLeavesOnlyUserMessage ==
  \A s \in SessionIds :
    /\ Len(MessagesOfRole(s, "USER")) = Len(turns[s])
    /\ \A k \in 1..Len(turns[s]) : MessagesOfRole(s, "USER")[k].content = turns[s][k].input
    /\ Len(MessagesOfRole(s, "MODEL")) = Cardinality(TurnsAt(s, "done"))
    /\ \A k \in TurnsAt(s, "failed") : \A i \in 1..Len(TurnLog(s, k)) : ~IsMarker(TurnLog(s, k)[i])

\* a turn that failed in the model call after it had streamed a token, in a
\* session that holds the USER message only
C4_Witness ==
  \E sk \in AllTurns :
    /\ turns[sk[1]][sk[2]].pc = "failed"
    /\ createAgentOk(framework[sk[1]])
    /\ Len(TurnLog(sk[1], sk[2])) > 0
    /\ Len(sessions[sk[1]].messages) = 1

\* C5: a document-delta event is published with its fragment already in
\* the document, after the PROGRESS and before the COMPLETED event of its
\* invocation.
C5_DeltaAfterCommit ==
  \A sk \in AllTurns :
    LET log == TurnLog(sk[1], sk[2])
    IN \A i \in 1..Len(log) :
         /\ log[i].kind = "documentUpdated" =>
              /\ IsSubstring(log[i].payload.html, sessions[sk[1]].document.bodyHtml)
              /\ \E j \in 1..(i - 1) :
                   /\ log[j].kind = "toolEvent"
                   /\ log[j].payload.type = "PROGRESS"
                   /\ log[j].payload.id = log[i].payload.id
              /\ \A j \in 1..(i - 1) :
                   ~(/\ log[j].kind = "toolEvent"
                     /\ log[j].payload.type = "COMPLETED"
                     /\ log[j].payload.id = log[i].payload.id)
         /\ (log[i].kind = "toolEvent" /\ log[i].payload.type = "COMPLETED") =>
              \E j \in 1..(i - 1) :
                /\ log[j].kind = "documentUpdated"
                /\ log[j].payload.id = log[i].payload.id

\* two fragments committed to one document, both deltas published
C5_Witness ==
  \E sk \in AllTurns :
    /\ Len(EventsOfKind(TurnLog(sk[1], sk[2]), "documentUpdated")) = 2
    /\ Len(sessions[sk[1]].document.bodyHtml) > 8

\* C6: the events of an invocation are STARTED, PROGRESS, document-delta,
\* COMPLETED, in that order and once each, under one id that no other
\* invocation uses: the events under one id form a beginning of that
\* lifecycle, the whole of it once the tool step is over and no call of it
\* is under way, and an id occurs in the history of one turn only.
C6_LifecycleOrderAndId ==
  /\ \A sk \in AllTurns :
       LET log == TurnLog(sk[1], sk[2])
       IN \A id \in InvocationIds(log) :
            LET evs == EventsOfInvocation(log, id)
            IN /\ Len(evs) <= 4
               /\ \A i \in 1..Len(evs) : Stage(evs[i]) = Lifecycle[i]
               /\ ( /\ turns[sk[1]][sk[2]].pc # "tools"
                    /\ \A c \in 1..Len(turns[sk[1]][sk[2]].calls) :
                         turns[sk[1]][sk[2]].calls[c].pc \in {"rejected", "completed"} )
                  => Len(evs) = 4
  /\ \A sk1 \in AllTurns, sk2 \in AllTurns :
       sk1 # sk2 =>
         InvocationIds(TurnLog(sk1[1], sk1[2])) \cap InvocationIds(TurnLog(sk2[1], sk2[2])) = {}
  /\ \A sk \in AllTurns :
       LET t == turns[sk[1]][sk[2]]
       IN \A c \in 1..Len(t.calls) :
            LET evs == EventsOfInvocation(TurnLog(sk[1], sk[2]), t.calls[c].id)
            IN Len(evs) = (CASE t.calls[c].pc \in {"called", "rejected"} -> 0
                             [] t.calls[c].pc = "started" -> 1
                             [] t.calls[c].pc = "progress" -> 2
                             [] t.calls[c].pc = "committed" -> 3
                             [] t.calls[c].pc = "completed" -> 4)

\* two invocations of one turn that ran side by side, both complete
C6_Witness ==
  \E sk \in AllTurns :
    LET log == TurnLog(sk[1], sk[2])
    IN /\ Cardinality(InvocationIds(log)) = 2
       /\ \A id \in InvocationIds(log) : Len(EventsOfInvocation(log, id)) = 4
       /\ Stage(log[1]) = "STARTED" /\ Stage(log[2]) = "STARTED"

\* C7: appendToBody returns the number of fragments appended before: the
\* k-th append (from 0) of a single-element fragment returns k.  Stated for
\* the sessions with one turn, whose history lists the appends in order.
C7_IndexCountsPrecedingFragments ==
  \A s \in SessionIds :
    Len(turns[s]) = 1 =>
      LET deltas == EventsOfKind(TurnLog(s, 1), "documentUpdated")
      IN \A i \in 1..Len(deltas) : deltas[i].payload.index = i - 1

\* C9: events never cross sessions: whatever an iterator has received was
\* published on behalf of the session it subscribed to and is of the kind it
\* subscribed to; and the topic key is injective in (kind, session id),
\* which for arbitrary ids means that no topic prefix begins another.
C9_EventsStayInSession ==
  /\ \A i \in DOMAIN subscribers :
       \A j \in 1..Len(Delivered(i)) :
         /\ Delivered(i)[j].origin = subscribers[i].sessionId
         /\ Delivered(i)[j].kind = subscribers[i].kind
  /\ \A k1 \in Kinds, k2 \in Kinds :
       k1 # k2 => ~IsPrefix(topics(k1, <<>>), topics(k2, <<>>))
  /\ \A k1 \in Kinds, k2 \in Kinds, s1 \in SessionIds, s2 \in SessionIds :
       topics(k1, s1) = topics(k2, s2) => (k1 = k2 /\ s1 = s2)

\* an iterator of one session that has received an event while another
\* session has published events of the same kind
C9_Witness ==
  \E i \in DOMAIN subscribers :
    /\ Len(subscribers[i].queue) > 0
    /\ \E s \in SessionIds \ {subscribers[i].sessionId} :
         Len(EventsOfKind(SessionEvents(s), subscribers[i].kind)) > 0

\* C10: an iterator of the message-token topic receives the tokens of a turn
\* in the order the engine produced them: what it holds of a turn is an end
\* piece of the tokens the turn has published, and those are the tokens the
\* turn's onToken calls accumulated, in order.
C10_TokensInProductionOrder ==
  /\ \A i \in DOMAIN subscribers :
       subscribers[i].kind = "messageDelta" =>
         \A k \in 1..Len(turns[subscribers[i].sessionId]) :
           LET s == subscribers[i].sessionId
               got == SelectSeq(Delivered(i), LAMBDA e : e.origin = s /\ e.turn = k)
               pub == EventsOfKind(TurnLog(s, k), "messageDelta")
           IN \E d \in 0..Len(pub) : got = SubSeq(pub, d + 1, Len(pub))
  /\ \A sk \in AllTurns :
       LET pub == EventsOfKind(TurnLog(sk[1], sk[2]), "messageDelta")
       IN /\ Concat([i \in 1..Len(pub) |-> pub[i].payload.contentDelta])
               = turns[sk[1]][sk[2]].allTokens
          /\ Len(pub) = turns[sk[1]][sk[2]].tokenCount

\* an iterator that holds two different tokens of one turn
C10_Witness ==
  \E i \in DOMAIN subscribers :
    /\ subscribers[i].kind = "messageDelta"
    /\ Len(subscribers[i].queue) = 2
    /\ subscribers[i].queue[1].turn = subscribers[i].queue[2].turn
    /\ subscribers[i].queue[1].payload # subscribers[i].queue[2].payload

(***************************************************************************)
(* The rendering of add_node on a wider set of arguments: the runs start   *)
(* where a reasoning step has just requested one tool call.                *)
(***************************************************************************)
RenderTags == {<<"p">>, <<"d", "i", "v">>}

RenderTexts == {Undefined, Some(<<>>), Some(<<"h", "i">>), Some(<<"a", "\"", "<">>)}

RenderAttributes ==
  { Undefined,
    Some(<<>>),
    Some(<< <<(<<"c", "l", "a", "s", "s">>), (<<"x", "\"", "y">>)>> >>),
    Some(<< <<(<<"i", "d">>), (<<"a">>)>>, <<(<<"c", "l", "a", "s", "s">>), (<<"\"", "\"">>)>> >>),
    Some(<< <<(<<"k">>), (<<"a", "&", "b">>)>> >>),
    Some(<< <<(<<"a">>), (<<>>)>>, <<(<<"b">>), (<<"\"">>)>>, <<(<<"c">>), (<<"<">>)>> >>) }

RenderArgs ==
  {[tag |-> t, text |-> x, attributes |-> a] :
     t \in RenderTags, x \in RenderTexts, a \in RenderAttributes}

RenderSession == <<"a">>

InitRender ==
  /\ framework = [s \in AllIds |-> "langgraph"]
  /\ limits = Limits(1, 0, 1, 1, 0, 0, RenderArgs)
  /\ \E input \in Inputs, args \in RenderArgs :
       LET msg == NewMessage(uuid(RenderSession, 1), RenderSession, "USER", input)
           ss == appendMessage([s \in {} |-> 0], RenderSession, msg)
       IN /\ sessions = ss
          /\ returned = [s \in Callers |->
                           IF s = RenderSession
                           THEN <<sendMessageResult(msg, NewTurn(ss, s, input))>>
                           ELSE <<>>]
          /\ turns = [s \in AllIds |->
                        IF s = RenderSession
                        THEN <<[NewTurn(ss, s, input) EXCEPT !.pc = "tools",
                                                             !.calls = <<NewCall(args)>>]>>
                        ELSE <<>>]
  /\ subscribers = <<>>
  /\ published = [s \in AllIds |-> IF s = RenderSession THEN << <<>> >> ELSE <<>>]
  /\ uuidCount = [s \in Callers |-> IF s = RenderSession THEN 1 ELSE 0]

NextRender ==
  \/ ToolStarted(RenderSession, 1, 1)
  \/ ToolProgress(RenderSession, 1, 1)
  \/ ToolCommit(RenderSession, 1, 1)
  \/ ToolCompleted(RenderSession, 1, 1)

SpecRender == InitRender /\ [][NextRender]_vars

\* the number of positions of s that hold the character ch
CountChar(s, ch) == Cardinality({i \in 1..Len(s) : s[i] = ch})

RECURSIVE SumLen(_, _)
\* the length of the attribute string of the entries from i on: per entry
\* the key, the three characters ="", the value and five more characters
\* per double quote of the value, and one space between two entries
SumLen(entries, i) ==
  IF i > Len(entries) THEN 0
  ELSE Len(entries[i][1]) + 3 + Len(entries[i][2]) + 5 * CountChar(entries[i][2], "\"")
       + (IF i < Len(entries) THEN 1 ELSE 0) + SumLen(entries, i + 1)

\* the fragment h is what the claim says add_node renders for args
RenderedAsClaimed(args, h) ==
  LET tag == args.tag
      entries == IF args.attributes = Undefined THEN <<>> ELSE args.attributes[1]
      text == IF args.text = Undefined THEN <<>> ELSE args.text[1]
      head == <<"<">> \o tag
      tail == text \o <<"<", "/">> \o tag \o <<">">>
      mid == SubSeq(h, Len(head) + 1, Len(h) - Len(tail))
      values == Concat([i \in 1..Len(entries) |-> entries[i][2]])
      keys == Concat([i \in 1..Len(entries) |-> entries[i][1]])
  IN /\ IsPrefix(head, h)
     /\ Len(h) >= Len(head) + 1 + Len(tail)
     /\ SubSeq(h, Len(h) - Len(tail) + 1, Len(h)) = tail
     /\ mid[Len(mid)] = ">"
     /\ Len(entries) = 0 => mid = <<">">>
     /\ Len(entries) > 0 =>
          /\ mid[1] = " "
          /\ Len(mid) = SumLen(entries, 1) + 2
          \* every double quote left delimits a value
          /\ CountChar(mid, "\"") = 2 * Len(entries) + CountChar(keys, "\"")
          \* every double quote of a value has become &quot; and no other
          \* character is escaped
          /\ CountChar(mid, "&") = CountChar(values, "&") + CountChar(values, "\"")
                                   + CountChar(keys, "&")
          /\ CountChar(mid, "<") = CountChar(values, "<") + CountChar(keys, "<")
          \* single spaces: one before each entry
          /\ CountChar(mid, " ") = Len(entries) + CountChar(values, " ") + CountChar(keys, " ")
          /\ \A i \in 1..Len(entries) :
               IsSubstring(<<" ">> \o entries[i][1] \o <<"=", "\"">>, mid)
     /\ args = ArgDiv =>
          h = <<"<", "d", "i", "v", " ", "c", "l", "a", "s", "s", "=", "\"", "x", "&", "q",
                "u", "o", "t", ";", "y", "\"", ">", "h", "i", "<", "/", "d", "i", "v", ">">>

\* C8: add_node renders the open tag with the attributes as name="value"
\* separated by single spaces, every double quote of a value replaced by
\* &quot; and nothing else escaped, then the text verbatim, then the closing
\* tag; with no attributes the open tag is <tag>; the div example renders
\* as <div class="x&quot;y">hi</div>.
C8_RenderedFragment ==
  \A sk \in AllTurns :
    \A c \in 1..Len(turns[sk[1]][sk[2]].calls) :
      LET call == turns[sk[1]][sk[2]].calls[c]
      IN call.pc \in {"progress", "committed", "completed"} =>
           RenderedAsClaimed(call.args, call.html)

\* the div example rendered and committed
C8_Witness ==
  \E sk \in AllTurns :
    \E c \in 1..Len(turns[sk[1]][sk[2]].calls) :
      LET call == turns[sk[1]][sk[2]].calls[c]
      IN /\ call.args = ArgDiv
         /\ call.pc = "completed"
         /\ sessions[sk[1]].document.bodyHtml = call.html

\* C11: listMessages returns the messages of the appendMessage calls made
\* for the session, as many as the calls (one per sendMessage, one per turn
\* that finished), in call order (the ids are drawn inside appendMessage, so
\* the order of the draws is the order of the calls; and the messages
\* sendMessage returned are the USER messages, in order), with pairwise
\* distinct ids.
C11_MessagesInCallOrder ==
  \A s \in SessionIds :
    LET ms == listMessages(sessions, s)
    IN /\ Len(ms) = Len(turns[s]) + Cardinality(TurnsAt(s, "done"))
       /\ \A i \in 1..Len(ms), j \in 1..Len(ms) :
            i < j => (ms[i].id # ms[j].id /\ ms[i].id[2] < ms[j].id[2])
       /\ \A k \in 1..Len(ReturnsOf(s, "sendMessage")) :
            ReturnsOf(s, "sendMessage")[k].value = MessagesOfRole(s, "USER")[k]

\* a log of three messages, a MODEL message between two USER messages
C11_Witness ==
  \E s \in DOMAIN sessions :
    /\ Len(sessions[s].messages) = 3
    /\ sessions[s].messages[1].role = "USER"
    /\ sessions[s].messages[2].role = "MODEL"
    /\ sessions[s].messages[3].role = "USER"

\* C12: ensureSession(id) on a known id returns the id and leaves the
\* message log and the document of the session (and of every other
\* session) as they were.
C12_EnsureSessionIdempotent ==
  [][\A s \in SessionIds :
       (/\ s \in DOMAIN sessions
        /\ returned'[s] # returned[s]
        /\ returned'[s][Len(returned'[s])].op = "ensureSession")
       => (/\ sessions' = sessions
           /\ returned'[s][Len(returned'[s])].value = s
           /\ ~returned'[s][Len(returned'[s])].error)]_vars

\* ensureSession called twice on a session that holds a message and a
\* fragment
C12_Witness ==
  \E s \in DOMAIN sessions :
    /\ Len(returned[s]) = 3
    /\ returned[s][1].op = "sendMessage"
    /\ returned[s][2].op = "ensureSession"
    /\ returned[s][3].op = "ensureSession"
    /\ returned[s][2].value = s /\ returned[s][3].value = s
    /\ Len(sessions[s].messages) > 0
    /\ Len(sessions[s].document.bodyHtml) > 0

\* C13: a turn in which no tool call was made has published no
\* tool-lifecycle and no document-delta event, one token-delta event per
\* token produced (so at least one if any text was produced), at most one
\* marker, and once its run has returned and the turn is over exactly one
\* marker, after the tokens.
C13_TurnWithoutToolCalls ==
  \A sk \in AllTurns :
    LET t == turns[sk[1]][sk[2]]
        log == TurnLog(sk[1], sk[2])
        deltas == EventsOfKind(log, "messageDelta")
    IN (t.iterations = 0 /\ t.calls = <<>>) =>
         /\ EventsOfKind(log, "toolEvent") = <<>>
         /\ EventsOfKind(log, "documentUpdated") = <<>>
         /\ Len(deltas) = t.tokenCount
         /\ (t.allTokens # <<>> \/ t.content # <<>>) => Len(deltas) >= 1
         /\ Len(SelectSeq(log, IsMarker)) <= 1
         /\ t.pc = "done" =>
              /\ Len(log) = t.tokenCount + 1
              /\ IsMarker(log[Len(log)])
              /\ \A i \in 1..(Len(log) - 1) : log[i].kind = "messageDelta"

\* a finished turn without tool calls that streamed two tokens
C13_Witness ==
  \E sk \in AllTurns :
    LET t == turns[sk[1]][sk[2]]
    IN /\ t.pc = "done"
       /\ t.iterations = 0
       /\ t.tokenCount = 2
       /\ Len(TurnLog(sk[1], sk[2])) = 3

\* a turn whose run reached the iteration cap: the AgentExecutor has done
\* maxIterations rounds, or graph.invoke ran out of steps
CapHit(t) ==
  \/ t.agent = "langchain" /\ t.iterations >= maxIterations
  \/ t.error = "GraphRecursionError"

\* C14: a turn that reached the iteration cap publishes no marker and
\* appends no MODEL message, under either strategy, and the fragments it
\* committed stay in the document.
C14_CapExceededLeavesNoMarker ==
  \A sk \in AllTurns :
    LET t == turns[sk[1]][sk[2]]
        log == TurnLog(sk[1], sk[2])
    IN CapHit(t) =>
         /\ SelectSeq(log, IsMarker) = <<>>
         /\ t.pc # "done"
         /\ MessagesOfRole(sk[1], "MODEL") = <<>>
         /\ \A i \in 1..Len(log) :
              log[i].kind = "documentUpdated" =>
                IsSubstring(log[i].payload.html, sessions[sk[1]].document.bodyHtml)

\* C15: a run does at most maxIterations rounds under either strategy, and
\* a run that reached the cap has ended with an error, not with a result.
C15_RunEndsWithinCapOrFails ==
  \A sk \in AllTurns :
    LET t == turns[sk[1]][sk[2]]
    IN /\ t.iterations <= maxIterations
       /\ CapHit(t) => (t.pc = "failed" /\ t.error # "none" /\ t.onComplete = 0)

\* C16: an unknown strategy is fatal before any turn is started: with an
\* unknown strategy configured no sendMessage has started a turn, and no
\* turn fails with the factory's error.
C16_UnknownStrategyFatalBeforeTurns ==
  /\ \A s \in SessionIds : ~createAgentOk(framework[s]) => turns[s] = <<>>
  /\ \A sk \in AllTurns : turns[sk[1]][sk[2]].error # "Unknown agent framework"

\* C17: every sendMessage has appended one USER message with its input,
\* started its turn and returned that message, wherever the turn is now: per
\* session the returns, the USER messages and the turns are equally many,
\* and the k-th returned message is a USER message of the log with the input
\* of the k-th turn, there before the turn has published anything.
C17_SendMessageRecordsAndReturns ==
  \A s \in SessionIds :
    LET rs == ReturnsOf(s, "sendMessage")
        ms == listMessages(sessions, s)
    IN /\ Len(rs) = Len(turns[s])
       /\ Len(MessagesOfRole(s, "USER")) = Len(turns[s])
       /\ \A k \in 1..Len(turns[s]) :
            /\ rs[k].value.role = "USER"
            /\ rs[k].value.sessionId = s
            /\ rs[k].value.content = turns[s][k].input
            /\ Cardinality({i \in 1..Len(ms) : ms[i] = rs[k].value}) = 1

\* sendMessage has returned and its turn is still running, a token out
C17_Witness ==
  \E sk \in AllTurns :
    /\ turns[sk[1]][sk[2]].pc = "planning"
    /\ Len(TurnLog(sk[1], sk[2])) >= 1
    /\ Len(ReturnsOf(sk[1], "sendMessage")) >= sk[2]

\* C18: the result of sendMessage does not show the outcome of its turn:
\* for a turn that is over, be it done, failed in the run or failed when
\* the agent was created, the call has returned the USER message and no
\* error.
C18_TurnOutcomeNotInResult ==
  \A sk \in AllTurns :
    LET t == turns[sk[1]][sk[2]]
        r == ReturnsOf(sk[1], "sendMessage")[sk[2]]
    IN t.pc \in {"done", "failed"} =>
         /\ ~r.error
         /\ r.value = MessagesOfRole(sk[1], "USER")[sk[2]]

\* a turn that failed when the agent was created, its sendMessage returned
C18_Witness ==
  \E sk \in AllTurns :
    /\ turns[sk[1]][sk[2]].pc = "failed"
    /\ turns[sk[1]][sk[2]].error = "Unknown agent framework"
    /\ ~ReturnsOf(sk[1], "sendMessage")[sk[2]].error
    /\ ReturnsOf(sk[1], "sendMessage")[sk[2]].value.role = "USER"

\* C19: the history of a turn for which an agent was created is the log up
\* to, and without, the USER message its sendMessage appended, in order,
\* each entry with the role and the content of the message.
C19_HistoryExcludesCurrentMessage ==
  \A sk \in AllTurns :
    LET t == turns[sk[1]][sk[2]]
        ms == listMessages(sessions, sk[1])
        msg == ReturnsOf(sk[1], "sendMessage")[sk[2]].value
        pos == CHOOSE i \in 1..Len(ms) : ms[i].id = msg.id
    IN t.error # "Unknown agent framework" =>
         /\ Len(t.history) = pos - 1
         /\ \A i \in 1..(pos - 1) :
              t.history[i] = [role |-> ms[i].role, content |-> ms[i].content]

\* a second turn started while the first of the session was running: its
\* history is the first USER message
C19_Witness ==
  \E s \in SessionIds :
    /\ Len(turns[s]) = 2
    /\ InFlight(turns[s][1]) /\ InFlight(turns[s][2])
    /\ Len(turns[s][2].history) = 1
    /\ turns[s][2].history[1].role = "USER"

\* C20: an add_node call with an empty tag is rejected before STARTED: no
\* STARTED event carries such arguments and such a call never gets past its
\* entry, so it publishes nothing and leaves the document alone.
C20_InvalidArgsRejectedBeforeStarted ==
  \A sk \in AllTurns :
    LET t == turns[sk[1]][sk[2]]
        log == TurnLog(sk[1], sk[2])
    IN /\ \A c \in 1..Len(t.calls) :
            ~AddNodeArgsSchema(t.calls[c].args) => t.calls[c].pc \in {"called", "rejected"}
       /\ \A i \in 1..Len(log) :
            (log[i].kind = "toolEvent" /\ log[i].payload.type = "STARTED")
              => AddNodeArgsSchema(log[i].payload.args)

\* C21: a tool-level error does not abort the turn: a turn one of whose
\* tool calls was rejected for its arguments has not failed, and no turn
\* fails with the tool wrapper's parsing error.
C21_ToolErrorDoesNotAbortTurn ==
  \A sk \in AllTurns :
    LET t == turns[sk[1]][sk[2]]
    IN /\ t.error # "ToolInputParsingException"
       /\ (\E c \in 1..Len(t.calls) : t.calls[c].pc = "rejected") => t.pc # "failed"

\* the place of event e among the events of its kind in the history of its
\* turn
PlaceInTurn(e) ==
  Len(SelectSeq(TurnLog(e.origin, e.turn), LAMBDA x : x.kind = e.kind /\ x.n <= e.n))

\* the events of the key that turn k had published when iterator i was made
Since(i, k) == IF k <= Len(subscribers[i].since) THEN subscribers[i].since[k] ELSE 0

\* C22: the event bus keeps no backlog: no iterator has been handed an
\* event that was published on its key before it subscribed; and a turn
\* that ran with no iterator at all has published its events and its marker
\* all the same.
C22_NoBacklog ==
  /\ \A i \in DOMAIN subscribers :
       \A j \in 1..Len(Delivered(i)) :
         PlaceInTurn(Delivered(i)[j]) > Since(i, Delivered(i)[j].turn)
  /\ \A sk \in AllTurns :
       (subscribers = <<>> /\ turns[sk[1]][sk[2]].pc = "done") =>
         /\ IsMarker(TurnLog(sk[1], sk[2])[Len(TurnLog(sk[1], sk[2]))])
         /\ Len(EventsOfKind(TurnLog(sk[1], sk[2]), "messageDelta"))
              = turns[sk[1]][sk[2]].tokenCount

\* an iterator made after the first token of a turn that holds the second
\* token only
C22_Witness ==
  \E i \in DOMAIN subscribers :
    /\ subscribers[i].kind = "messageDelta"
    /\ Since(i, 1) = 1
    /\ Len(Delivered(i)) = 1
    /\ Len(EventsOfKind(TurnLog(subscribers[i].sessionId, 1), "messageDelta")) = 2

\* C23: every iterator is handed each event published on its key after it
\* subscribed exactly once and in publish order, whatever the other
\* iterators of the key have pulled: per turn, what it has been handed is
\* the events of the key from the one after its subscription on.
C23_EachSubscriberGetsEachEventOnce ==
  \A i \in DOMAIN subscribers :
    LET s == subscribers[i].sessionId
    IN /\ \A k \in 1..Len(turns[s]) :
            LET pub == EventsOfKind(TurnLog(s, k), subscribers[i].kind)
                got == SelectSeq(Delivered(i), LAMBDA e : e.turn = k)
            IN got = SubSeq(pub, Since(i, k) + 1, Len(pub))
       /\ \A j \in 1..Len(Delivered(i)) :
            Delivered(i)[j].origin = s /\ Delivered(i)[j].turn <= Len(turns[s])

\* two iterators of one key: the first has pulled both tokens, the second
\* has pulled none and holds both
C23_Witness ==
  /\ Len(subscribers) = 2
  /\ subscribers[1].key = subscribers[2].key
  /\ Len(subscribers[1].received) = 2
  /\ subscribers[2].received = <<>>
  /\ Len(subscribers[2].queue) = 2

RECURSIVE IsConcatOf(_, _)
\* b is a concatenation of members of the set F of non-empty sequences
IsConcatOf(b, F) ==
  \/ b = <<>>
  \/ \E f \in F :
       /\ f # <<>>
       /\ IsPrefix(f, b)
       /\ IsConcatOf(SubSeq(b, Len(f) + 1, Len(b)), F)

\* the document-delta events of session s
Deltas(s) == EventsOfKind(SessionEvents(s), "documentUpdated")

\* the markup of session s in the map ss
BodyOf(ss, s) == getDocument(ss, s).bodyHtml

\* the arguments of the invocation id, as its STARTED event carries them
ArgsOfInvocation(s, id) ==
  LET started == SelectSeq(SessionEvents(s),
                           LAMBDA e : /\ e.kind = "toolEvent"
                                      /\ e.payload.type = "STARTED"
                                      /\ e.payload.id = id)
  IN started[1].payload.args

\* C24: with arguments the schema accepts, the markup of a document is a
\* concatenation of whole fragments, each committed once and each an open
\* tag, the text and the matching closing tag as add_node renders them.
C24_BodyIsWholeFragments ==
  (\A a \in limits.args : AddNodeArgsSchema(a)) =>
    \A s \in SessionIds :
      LET evs == Deltas(s)
          body == BodyOf(sessions, s)
      IN /\ IsConcatOf(body, {evs[i].payload.html : i \in 1..Len(evs)})
         /\ Len(body) = Len(Concat([i \in 1..Len(evs) |-> evs[i].payload.html]))
         /\ \A i \in 1..Len(evs) :
              RenderedAsClaimed(ArgsOfInvocation(s, evs[i].payload.id), evs[i].payload.html)

\* a document of two different fragments
C24_Witness ==
  \E s \in DOMAIN sessions :
    /\ Len(Deltas(s)) = 2
    /\ Deltas(s)[1].payload.html # Deltas(s)[2].payload.html
    /\ sessions[s].document.bodyHtml = Deltas(s)[1].payload.html \o Deltas(s)[2].payload.html

\* C25: appendToBody is atomic among the invocations of a session: in a
\* session with one turn, whose history lists the commits in order, the
\* markup is the fragments in commit order, none lost, and the index of
\* each is computed from the markup before its own fragment; in every
\* session the markup is as long as the fragments committed together.
C25_AppendToBodyAtomic ==
  \A s \in SessionIds :
    LET evs == Deltas(s)
        frags == [i \in 1..Len(evs) |-> evs[i].payload.html]
    IN /\ Len(BodyOf(sessions, s)) = Len(Concat(frags))
       /\ Len(turns[s]) = 1 =>
            /\ BodyOf(sessions, s) = Concat(frags)
            /\ \A i \in 1..Len(evs) :
                 evs[i].payload.index = matchCount(Concat(SubSeq(frags, 1, i - 1)))

\* two calls of one reasoning step with different fragments, the second
\* committed before the first
C25_Witness ==
  \E sk \in AllTurns :
    LET t == turns[sk[1]][sk[2]]
    IN /\ Len(t.calls) = 2
       /\ t.calls[1].pc \in {"committed", "completed"}
       /\ t.calls[2].pc \in {"committed", "completed"}
       /\ t.calls[2].index = 0
       /\ t.calls[1].index > 0
       /\ t.calls[1].html # t.calls[2].html

\* C26: a step taken for session a (it changes the turns, the history or
\* the returns of a) leaves the entry of every other session in the store
\* as it was.
C26_OtherSessionsUntouched ==
  [][\A a \in SessionIds :
       (turns'[a] # turns[a] \/ published'[a] # published[a] \/ returned'[a] # returned[a])
       => \A b \in SessionIds \ {a} :
            /\ (b \in DOMAIN sessions') = (b \in DOMAIN sessions)
            /\ b \in DOMAIN sessions => sessions'[b] = sessions[b]]_vars

\* two sessions side by side: one with a finished turn, the other with a
\* turn that is running
C26_Witness ==
  \E a \in DOMAIN sessions, b \in DOMAIN sessions :
    /\ a # b
    /\ Len(sessions[a].messages) = 2
    /\ Len(sessions[b].messages) = 1
    /\ Len(turns[b]) = 1 /\ InFlight(turns[b][1])
    /\ Len(TurnLog(b, 1)) > 0

(***************************************************************************)
(* Two deployments side by side: session a is served by a server started   *)
(* with AGENT_FRAMEWORK=langchain, session b by one started with           *)
(* AGENT_FRAMEWORK=langgraph; each gets one message.                       *)
(***************************************************************************)
PairScenarios == { Limits(2, 2, 2, 1, 0, 0, {ArgA, ArgEmpty}) }

InitPair ==
  /\ framework = [s \in AllIds |-> IF s = <<"a">> THEN "langchain" ELSE "langgraph"]
  /\ limits \in PairScenarios
  /\ sessions = [s \in {} |-> 0]
  /\ turns = [s \in AllIds |-> <<>>]
  /\ subscribers = <<>>
  /\ published = [s \in AllIds |-> <<>>]
  /\ uuidCount = [s \in Callers |-> 0]
  /\ returned = [s \in Callers |-> <<>>]

NextPair ==
  \/ \E s \in SessionIds, input \in Inputs : turns[s] = <<>> /\ SendMessage(s, input)
  \/ \E s \in SessionIds, token \in Tokens : ModelToken(s, 1, token)
  \/ \E s \in SessionIds, argsSeq \in CallSeqs(limits.parallel) : ModelRequestsTools(s, 1, argsSeq)
  \/ \E s \in SessionIds : ModelAnswers(s, 1)
  \/ \E s \in SessionIds : ModelFails(s, 1)
  \/ \E s \in SessionIds, c \in 1..limits.parallel : ToolRejected(s, 1, c)
  \/ \E s \in SessionIds, c \in 1..limits.parallel : ToolStarted(s, 1, c)
  \/ \E s \in SessionIds, c \in 1..limits.parallel : ToolProgress(s, 1, c)
  \/ \E s \in SessionIds, c \in 1..limits.parallel : ToolCommit(s, 1, c)
  \/ \E s \in SessionIds, c \in 1..limits.parallel : ToolCompleted(s, 1, c)
  \/ \E s \in SessionIds : ToolsDone(s, 1)
  \/ \E s \in SessionIds : TurnFinish(s, 1)

SpecPair == InitPair /\ [][NextPair]_vars

\* what a client sees of an event, the ids of the session and of the
\* invocation left out
Outward(e) ==
  CASE e.kind = "toolEvent" ->
         [kind |-> e.kind, type |-> e.payload.type, args |-> e.payload.args]
    [] e.kind = "documentUpdated" ->
         [kind |-> e.kind, html |-> e.payload.html, index |-> e.payload.index]
    [] OTHER -> [kind |-> e.kind, payload |-> e.payload]

\* the events of turn k of session s as a client sees them
Observed(s, k) == [i \in 1..Len(TurnLog(s, k)) |-> Outward(TurnLog(s, k)[i])]

\* the message log of session s as a client sees it
ObservedLog(s) ==
  LET ms == listMessages(sessions, s)
  IN [i \in 1..Len(ms) |-> [role |-> ms[i].role, content |-> ms[i].content]]

\* the runs t and u met the same reasoning engine: the decisions of one are
\* the first decisions of the other
SameEngine(t, u) == IsPrefix(t.script, u.script) \/ IsPrefix(u.script, t.script)

\* C27: the two strategies cannot be told apart from outside: two turns on
\* the same input, one served by each strategy, that met the same reasoning
\* engine and have ended show the same events in the same order and leave
\* the same message log and the same document.
C27_StrategiesIndistinguishable ==
  \A a \in SessionIds, b \in SessionIds :
    ( /\ framework[a] = "langchain" /\ framework[b] = "langgraph"
      /\ Len(turns[a]) = 1 /\ Len(turns[b]) = 1
      /\ turns[a][1].input = turns[b][1].input
      /\ ~InFlight(turns[a][1]) /\ ~InFlight(turns[b][1])
      /\ SameEngine(turns[a][1], turns[b][1]) )
    => /\ Observed(a, 1) = Observed(b, 1)
       /\ ObservedLog(a) = ObservedLog(b)
       /\ BodyOf(sessions, a) = BodyOf(sessions, b)

\* C28: a run invokes onComplete at most once and no onToken after it: in
\* every step the count of onComplete of each run stays at most one and
\* does not go down, and a run whose onComplete has been invoked gets no
\* further token and publishes no further token delta.
C28_NoTokenAfterComplete ==
  [][\A s \in SessionIds : \A k \in 1..Len(turns[s]) :
       /\ turns'[s][k].onComplete <= 1
       /\ turns'[s][k].onComplete >= turns[s][k].onComplete
       /\ turns[s][k].onComplete >= 1 =>
            /\ turns'[s][k].tokenCount = turns[s][k].tokenCount
            /\ EventsOfKind(published'[s][k], "messageDelta")
                 = EventsOfKind(published[s][k], "messageDelta")]_vars

\* a finished run that streamed two tokens before its onComplete
C28_Witness ==
  \E sk \in AllTurns :
    /\ turns[sk[1]][sk[2]].pc = "done"
    /\ turns[sk[1]][sk[2]].onComplete = 1
    /\ turns[sk[1]][sk[2]].tokenCount = 2
    /\ Len(EventsOfKind(TurnLog(sk[1], sk[2]), "messageDelta")) = 2

\* C29: the document changes in the appendToBody step of add_node only: a
\* step that changes the markup of a session is the commit of one of its
\* tool calls and appends the fragment of that call; every other step
\* (ensureSession, the queries, sendMessage, tokens, completion, failure)
\* leaves every document as it was.
C29_OnlyAddNodeChangesDocument ==
  [][\A s \in SessionIds :
       BodyOf(sessions', s) # BodyOf(sessions, s) =>
         \E k \in 1..Len(turns[s]) : \E c \in 1..Len(turns[s][k].calls) :
           /\ turns[s][k].calls[c].pc = "progress"
           /\ turns'[s][k].calls[c].pc = "committed"
           /\ BodyOf(sessions', s) = BodyOf(sessions, s) \o turns[s][k].calls[c].html]_vars

\* a session whose turn has committed a fragment and finished, and whose
\* document has been queried since
C29_Witness ==
  \E s \in DOMAIN sessions :
    /\ Len(turns[s]) = 1 /\ turns[s][1].pc = "done"
    /\ sessions[s].document.bodyHtml # <<>>
    /\ Len(returned[s]) >= 2
    /\ returned[s][Len(returned[s])].op = "document"
    /\ returned[s][Len(returned[s])].value.bodyHtml = sessions[s].document.bodyHtml

\* C30: the document is append-only: in every step the markup of each
\* session before the step is a prefix of its markup after the step, the
\* steps in which a turn fails included.
C30_DocumentAppendOnly ==
  [][\A s \in SessionIds : IsPrefix(BodyOf(sessions, s), BodyOf(sessions', s))]_vars

\* a turn that failed after one of its tool calls had been committed
C30_Witness ==
  \E sk \in AllTurns :
    /\ turns[sk[1]][sk[2]].pc = "failed"
    /\ turns[sk[1]][sk[2]].error = "model call failed"
    /\ Len(EventsOfKind(TurnLog(sk[1], sk[2]), "documentUpdated")) >= 1
    /\ BodyOf(sessions, sk[1]) # <<>>

\* C31: the run follows PLANNING -> (TOOL_CALL -> PLANNING)* -> ANSWERING ->
\* DONE: a run enters its tool-execution step only from a reasoning step
\* that asked for at least one tool call, leaves it only for the next
\* reasoning step (or by failing), and ends normally only from a reasoning
\* step.
C31_RunFollowsStateMachine ==
  [][\A s \in SessionIds : \A k \in 1..Len(turns[s]) :
       LET p == turns[s][k].pc
           q == turns'[s][k].pc
       IN p # q =>
            /\ q = "tools" => p = "planning" /\ Len(turns'[s][k].calls) >= 1
            /\ p = "tools" => q \in {"planning", "failed"}
            /\ q = "completing" => p = "planning"
            /\ q = "done" => p = "completing"]_vars

\* the tool-lifecycle events of a type that session s has published for the
\* invocation id
ToolEventsOf(s, id, type) ==
  SelectSeq(SessionEvents(s),
            LAMBDA e : e.kind = "toolEvent" /\ e.payload.type = type /\ e.payload.id = id)

\* the document-delta events that session s has published for the
\* invocation id
DeltasOf(s, id) == SelectSeq(Deltas(s), LAMBDA e : e.payload.id = id)

\* the tool calls of the turns of session s that have entered addNodeTool
RunningCalls(s) ==
  {kc \in (1..Len(turns[s])) \X (1..MaxInvocations + 1) :
     /\ kc[2] <= Len(turns[s][kc[1]].calls)
     /\ turns[s][kc[1]].calls[kc[2]].pc \notin {"called", "rejected"}}

\* C32: the payloads of one add_node invocation agree: STARTED carries the
\* arguments as the reasoning step gave them; PROGRESS carries the first
\* PreviewLen characters of the rendered fragment, the whole fragment when
\* it is shorter; the index of the document delta, the index of COMPLETED,
\* the index addNodeTool returns and the index of the {ok: true, index}
\* handed to the engine are one value, the one appendToBody returned.
C32_PayloadsAgree ==
  \A s \in SessionIds :
    /\ \A kc \in RunningCalls(s) :
         LET call == turns[s][kc[1]].calls[kc[2]]
             step == turns[s][kc[1]].script[Len(turns[s][kc[1]].script)]
         IN /\ step.step = "tools" /\ step.calls[kc[2]] = call.args
            /\ Len(ToolEventsOf(s, call.id, "STARTED")) = 1
            /\ ToolEventsOf(s, call.id, "STARTED")[1].payload.args = call.args
            /\ call.pc \in {"committed", "completed"} =>
                 /\ Len(DeltasOf(s, call.id)) = 1
                 /\ DeltasOf(s, call.id)[1].payload.index = call.index
                 /\ DeltasOf(s, call.id)[1].payload.html = html(call.args)
            /\ call.pc = "completed" =>
                 /\ Len(ToolEventsOf(s, call.id, "COMPLETED")) = 1
                 /\ ToolEventsOf(s, call.id, "COMPLETED")[1].payload.args.index = call.index
                 /\ toolCallSummary(call).result = [ok |-> TRUE, index |-> call.index]
    /\ \A i \in 1..Len(SessionEvents(s)) :
         LET e == SessionEvents(s)[i]
         IN e.kind = "toolEvent" =>
              LET fragment == html(ArgsOfInvocation(s, e.payload.id))
              IN /\ e.payload.type = "PROGRESS" =>
                      /\ IsPrefix(e.payload.args.htmlPreview, fragment)
                      /\ Len(e.payload.args.htmlPreview) = Min(PreviewLen, Len(fragment))
                 /\ e.payload.type = "COMPLETED" =>
                      /\ Len(DeltasOf(s, e.payload.id)) = 1
                      /\ DeltasOf(s, e.payload.id)[1].payload.index = e.payload.args.index
    /\ Len(turns[s]) = 1 =>
         \A i \in 1..Len(Deltas(s)) :
           Deltas(s)[i].payload.index
             = matchCount(Concat([j \in 1..(i - 1) |-> Deltas(s)[j].payload.html]))

\* a finished invocation whose fragment is longer than the preview, and
\* whose PROGRESS carried PreviewLen characters of it
C32_Witness ==
  \E s \in SessionIds : \E kc \in RunningCalls(s) :
    LET call == turns[s][kc[1]].calls[kc[2]]
    IN /\ call.pc = "completed"
       /\ Len(call.html) > PreviewLen
       /\ Len(ToolEventsOf(s, call.id, "PROGRESS")) = 1
       /\ Len(ToolEventsOf(s, call.id, "PROGRESS")[1].payload.args.htmlPreview) = PreviewLen
       /\ Len(ToolEventsOf(s, call.id, "COMPLETED")) = 1

\* the last call a resolver has returned for session s
LastReturn(rs) == rs[Len(rs)]

\* C33: the store reads never fail on an unknown session id and the set of
\* known sessions only grows: no step removes a session; a query that
\* returns for a session returns without error and leaves the session
\* known; on an id unknown before, it returns an empty message sequence
\* and a document with empty markup and stores the empty session.
C33_ReadsCreateAndSessionsOnlyGrow ==
  [][/\ DOMAIN sessions \subseteq DOMAIN sessions'
     /\ \A s \in SessionIds :
          (returned'[s] # returned[s] /\ LastReturn(returned'[s]).op \in QueryFields) =>
            LET r == LastReturn(returned'[s])
            IN /\ ~r.error
               /\ s \in DOMAIN sessions'
               /\ s \notin DOMAIN sessions =>
                    /\ sessions'[s] = NewSessionState(s)
                    /\ r.op = "messages" => r.value = <<>>
                    /\ r.op = "document" => r.value = [sessionId |-> s, bodyHtml |-> <<>>]
                    /\ r.op = "session" =>
                         /\ r.value.messages = <<>>
                         /\ r.value.document.bodyHtml = <<>>]_vars

\* a session that came to be by a query on its unknown id, which returned
\* the empty log, next to a session with a message
C33_Witness ==
  \E s \in DOMAIN sessions, o \in DOMAIN sessions :
    /\ o # s
    /\ sessions[o].messages # <<>>
    /\ turns[s] = <<>>
    /\ Len(returned[s]) = 1
    /\ returned[s][1].op = "messages"
    /\ returned[s][1].value = <<>>
    /\ sessions[s] = NewSessionState(s)

\* C34: messages are immutable once appended: in every step the message log
\* of each session before the step is a prefix of its log after the step
\* (same messages at the same positions, with the same id, role and
\* content).
C34_MessagesImmutable ==
  [][\A s \in SessionIds :
       IsPrefix(listMessages(sessions, s), listMessages(sessions', s))]_vars

\* a session whose log holds the messages of two finished turns and that
\* has a tool call behind it
C34_Witness ==
  \E s \in DOMAIN sessions :
    /\ Len(sessions[s].messages) = 4
    /\ Len(turns[s]) = 2
    /\ turns[s][1].pc = "done" /\ turns[s][2].pc = "done"
    /\ sessions[s].document.bodyHtml # <<>>

\* s ends with t
IsSuffix(t, s) == Len(t) <= Len(s) /\ SubSeq(s, Len(s) - Len(t) + 1, Len(s)) = t

\* the fragments of the document deltas handed to iterator i, in the order
\* they were published
FragmentsSeen(i) == [j \in 1..Len(Delivered(i)) |-> Delivered(i)[j].payload.html]

\* C35: in one session the document deltas are published in the order of
\* the commits and each with its commit: what an iterator of the session's
\* deltas has been handed, put together in order, is the end of the markup,
\* and the whole markup when it subscribed before the first delta, and the
\* deltas come in the order of their commits (of their indices); a tool
\* call has its delta published exactly when its fragment is committed;
\* the deltas published together are as long as the markup.
C35_DeltasInCommitOrder ==
  /\ \A i \in DOMAIN subscribers :
       subscribers[i].kind = "documentUpdated" =>
         LET s == subscribers[i].sessionId
         IN /\ IsSuffix(Concat(FragmentsSeen(i)), BodyOf(sessions, s))
            /\ \A j \in 1..(Len(Delivered(i)) - 1) :
                 /\ Delivered(i)[j].payload.index < Delivered(i)[j + 1].payload.index
                 /\ Delivered(i)[j].payload.id # Delivered(i)[j + 1].payload.id
            /\ (\A k \in 1..Len(turns[s]) : Since(i, k) = 0) =>
                 Concat(FragmentsSeen(i)) = BodyOf(sessions, s)
  /\ \A s \in SessionIds :
       /\ Len(Concat([j \in 1..Len(Deltas(s)) |-> Deltas(s)[j].payload.html]))
            = Len(BodyOf(sessions, s))
       /\ \A kc \in RunningCalls(s) :
            Len(DeltasOf(s, turns[s][kc[1]].calls[kc[2]].id))
              = IF turns[s][kc[1]].calls[kc[2]].pc \in {"committed", "completed"} THEN 1 ELSE 0

\* two tool calls of one reasoning step have committed their fragments
\* while both were running, the second call first, and an iterator that
\* subscribed before has been handed both deltas in that order
C35_Witness ==
  \E i \in DOMAIN subscribers :
    LET s == subscribers[i].sessionId
    IN /\ subscribers[i].kind = "documentUpdated"
       /\ Len(turns[s]) = 1
       /\ Len(turns[s][1].calls) = 2
       /\ turns[s][1].calls[1].pc = "committed"
       /\ turns[s][1].calls[2].pc = "committed"
       /\ Len(Delivered(i)) = 2
       /\ Delivered(i)[1].payload.id = turns[s][1].calls[2].id
       /\ Delivered(i)[2].payload.id = turns[s][1].calls[1].id
       /\ turns[s][1].calls[2].index < turns[s][1].calls[1].index

(***************************************************************************)
(* appendToBody alone: the fragments appended to one document are drawn    *)
(* from the strings add_node renders and from arbitrary short strings.     *)
(***************************************************************************)
AppendSession == <<"a">>

\* add_node arguments whose tag and attribute values hold no angle bracket;
\* the text may
AppendArgs ==
  { ArgA, ArgDiv,
    [tag |-> <<"p">>, text |-> Some(<<"<">>), attributes |-> Undefined],
    [tag |-> <<"p">>, text |-> Some(<<">", "<">>), attributes |-> Undefined] }

\* the fragments add_node renders from AppendArgs
RenderedFragments == {html(args) : args \in AppendArgs}

\* every string of one or two of the characters "<", ">", "a"
AnyFragments ==
  LET Alphabet == {"<", ">", "a"}
  IN {<<x>> : x \in Alphabet} \cup {<<x, y>> : x \in Alphabet, y \in Alphabet}

InitAppend ==
  /\ framework = [s \in AllIds |-> "langgraph"]
  /\ limits = Limits(0, 0, 0, 1, 0, 0, AppendArgs)
  /\ sessions = [s \in {} |-> 0]
  /\ turns = [s \in AllIds |-> <<>>]
  /\ subscribers = <<>>
  /\ published = [s \in AllIds |-> <<>>]
  /\ uuidCount = [s \in Callers |-> 0]
  /\ returned = [s \in Callers |-> <<>>]

\* appendToBody(sessionId, fragment): the markup grows by the fragment, and
\* {index} is returned
AppendToBody(s, fragment) ==
  /\ Len(returned[s]) < MaxAppends
  /\ sessions' = appendToBody(sessions, s, fragment)
  /\ returned' = [returned EXCEPT
                    ![s] = Append(@, Returns("appendToBody",
                                             [index |-> appendToBodyIndex(sessions, s),
                                              html |-> fragment]))]
  /\ UNCHANGED <<framework, limits, turns, subscribers, published, uuidCount>>

NextAppend ==
  \E fragment \in RenderedFragments \cup AnyFragments : AppendToBody(AppendSession, fragment)

SpecAppend == InitAppend /\ [][NextAppend]_vars

\* C36: the index appendToBody returns never goes down from one append to
\* the next, whatever the fragments; and it goes up from each append to the
\* next as long as the fragments appended are the ones add_node renders
\* from a tag and attribute values without angle brackets.
C36_IndicesIncrease ==
  \A s \in SessionIds :
    LET rs == ReturnsOf(s, "appendToBody")
    IN \A j \in 1..(Len(rs) - 1) :
         /\ rs[j].value.index <= rs[j + 1].value.index
         /\ (\A i \in 1..j : rs[i].value.html \in RenderedFragments) =>
              rs[j].value.index < rs[j + 1].value.index

\* three appends: two rendered fragments, the first with angle brackets in
\* its text, and then an arbitrary string
C36_Witness ==
  LET rs == ReturnsOf(AppendSession, "appendToBody")
  IN /\ Len(rs) = 3
     /\ rs[1].value.html = html([tag |-> <<"p">>, text |-> Some(<<">", "<">>),
                                 attributes |-> Undefined])
     /\ rs[2].value.html = html(ArgDiv)
     /\ rs[3].value.html = <<"<", "a">>
     /\ rs[1].value.index = 0
     /\ rs[2].value.index = 2
     /\ rs[3].value.index = 4

\* the turn-completion markers session s has published
Markers(s) == EventsOfKind(SessionEvents(s), "modelMessageCompleted")

\* C37: in every state and for every session, the markers published for
\* the session are as many as the MODEL messages of its log.
C37_MarkersMatchModelMessages ==
  \A s \in SessionIds : Len(Markers(s)) = Len(MessagesOfRole(s, "MODEL"))

\* a session with a finished turn and a failed one: two USER messages, one
\* MODEL message, one marker
C37_Witness ==
  \E s \in DOMAIN sessions :
    /\ Len(turns[s]) = 2
    /\ \E k \in 1..2 : turns[s][k].pc = "done" /\ turns[s][3 - k].pc = "failed"
    /\ Len(Markers(s)) = 1
    /\ Len(MessagesOfRole(s, "MODEL")) = 1
    /\ Len(MessagesOfRole(s, "USER")) = 2

\* the position in the log ms of its n-th message of a role, 0 when there
\* are fewer
PositionOfNth(ms, role, n) ==
  LET at == {j \in 1..Len(ms) :
               /\ ms[j].role = role
               /\ Len(SelectSeq(SubSeq(ms, 1, j), LAMBDA m : m.role = role)) = n}
  IN IF at = {} THEN 0 ELSE CHOOSE j \in at : TRUE

\* C38: in every state and for every session the MODEL messages of the log
\* are at most as many as its USER messages, in every prefix of the log
\* too; the MODEL messages are as many as the turns that have finished, and
\* the MODEL message of a finished turn stands after the USER message of
\* that turn (the k-th USER message for turn k), also when turns overlap.
C38_ModelAfterItsUserMessage ==
  \A s \in SessionIds :
    LET ms == listMessages(sessions, s)
        finished == {k \in 1..Len(turns[s]) : turns[s][k].pc = "done"}
    IN /\ Len(MessagesOfRole(s, "MODEL")) <= Len(MessagesOfRole(s, "USER"))
       /\ \A j \in 1..Len(ms) :
            Len(SelectSeq(SubSeq(ms, 1, j), LAMBDA m : m.role = "MODEL"))
              <= Len(SelectSeq(SubSeq(ms, 1, j), LAMBDA m : m.role = "USER"))
       /\ Len(MessagesOfRole(s, "MODEL")) = Cardinality(finished)
       /\ Len(MessagesOfRole(s, "USER")) = Len(turns[s])
       /\ \A k \in finished :
            /\ ms[PositionOfNth(ms, "USER", k)].content = turns[s][k].input
            /\ \E j \in (PositionOfNth(ms, "USER", k) + 1)..Len(ms) :
                 ms[j].role = "MODEL" /\ ms[j].content = resultContent(turns[s][k])

\* two overlapping turns of one session, the second finished first: the
\* log is USER, USER, MODEL of the second turn, MODEL of the first
C38_Witness ==
  \E s \in DOMAIN sessions :
    LET ms == sessions[s].messages
    IN /\ Len(turns[s]) = 2 /\ Len(ms) = 4
       /\ ms[1].role = "USER" /\ ms[2].role = "USER"
       /\ ms[3].role = "MODEL" /\ ms[4].role = "MODEL"
       /\ ms[3].content = resultContent(turns[s][2])
       /\ ms[4].content = resultContent(turns[s][1])
       /\ ms[3].content # ms[4].content

\* the log ms as the pairs of role and content a history is made of
AsHistory(ms) == [i \in 1..Len(ms) |-> [role |-> ms[i].role, content |-> ms[i].content]]

\* C39: in a session whose turns did not overlap and of which none failed,
\* the log alternates USER, MODEL, USER, MODEL, ... from a USER message on,
\* and the history handed to the n-th turn is the n-1 USER/MODEL pairs
\* before it, in the order of the log.
C39_AlternationWithoutOverlap ==
  \A s \in SessionIds :
    (\A k \in 1..Len(turns[s]) : ~turns[s][k].overlaps /\ turns[s][k].pc # "failed") =>
      LET ms == listMessages(sessions, s)
      IN /\ \A j \in 1..Len(ms) : ms[j].role = IF j % 2 = 1 THEN "USER" ELSE "MODEL"
         /\ \A n \in 1..Len(turns[s]) :
              /\ Len(turns[s][n].history) = 2 * (n - 1)
              /\ turns[s][n].history = AsHistory(SubSeq(ms, 1, 2 * (n - 1)))
              /\ ms[2 * n - 1].content = turns[s][n].input

\* a session with two finished turns, the second started after the first
\* had finished: its history is the first pair
C39_Witness ==
  \E s \in DOMAIN sessions :
    /\ Len(turns[s]) = 2
    /\ ~turns[s][1].overlaps /\ ~turns[s][2].overlaps
    /\ turns[s][1].pc = "done" /\ turns[s][2].pc = "done"
    /\ Len(sessions[s].messages) = 4
    /\ Len(turns[s][2].history) = 2
    /\ turns[s][2].history[2].role = "MODEL"
    /\ turns[s][2].history[2].content # <<>>

(***************************************************************************)
(* The tool invocations to their end: the continuation of an await whose   *)
(* promise has resolved is run by the event loop, so a step of addNodeTool *)
(* that can be taken is taken.                                             *)
(***************************************************************************)
LiveScenarios ==
  { \* one reasoning step with two calls, one of which may have an empty tag
    Limits(1, 0, 2, 2, 0, 0, {ArgA, ArgEmpty}),
    \* two turns, overlapping or not, with a call each or two calls in one
    Limits(2, 0, 2, 1, 0, 0, {ArgA}) }

InitLive ==
  /\ framework \in {[s \in AllIds |-> fw] : fw \in {"langchain", "langgraph"}}
  /\ limits \in LiveScenarios
  /\ sessions = [s \in {} |-> 0]
  /\ turns = [s \in AllIds |-> <<>>]
  /\ subscribers = <<>>
  /\ published = [s \in AllIds |-> <<>>]
  /\ uuidCount = [s \in Callers |-> 0]
  /\ returned = [s \in Callers |-> <<>>]

NextLive ==
  \/ \E s \in SessionIds, input \in Inputs : SendMessage(s, input)
  \/ \E s \in SessionIds, k \in 1..limits.turns, argsSeq \in CallSeqs(limits.parallel) :
       ModelRequestsTools(s, k, argsSeq)
  \/ \E s \in SessionIds, k \in 1..limits.turns : ModelAnswers(s, k)
  \/ \E s \in SessionIds, k \in 1..limits.turns : ModelFails(s, k)
  \/ \E s \in SessionIds, k \in 1..limits.turns, c \in 1..limits.parallel : ToolRejected(s, k, c)
  \/ \E s \in SessionIds, k \in 1..limits.turns, c \in 1..limits.parallel : ToolStarted(s, k, c)
  \/ \E s \in SessionIds, k \in 1..limits.turns, c \in 1..limits.parallel : ToolProgress(s, k, c)
  \/ \E s \in SessionIds, k \in 1..limits.turns, c \in 1..limits.parallel : ToolCommit(s, k, c)
  \/ \E s \in SessionIds, k \in 1..limits.turns, c \in 1..limits.parallel : ToolCompleted(s, k, c)
  \/ \E s \in SessionIds, k \in 1..limits.turns : ToolsDone(s, k)
  \/ \E s \in SessionIds, k \in 1..limits.turns : TurnFinish(s, k)

\* the awaits of addNodeTool resolve and their continuations run (no id is
\* generated in these runs: the sessions are the clients' own)
FairLive ==
  \A s \in ClientIds : \A k \in 1..2 : \A c \in 1..2 :
    /\ WF_vars(ToolProgress(s, k, c))
    /\ WF_vars(ToolCommit(s, k, c))
    /\ WF_vars(ToolCompleted(s, k, c))

SpecLive == InitLive /\ [][NextLive]_vars /\ FairLive

\* the ids uuid() can have handed out in a session of these runs
LiveIds == 1..6

\* STARTED has been published for the invocation with the n-th id of session s
InvocationStarted(s, n) == ToolEventsOf(s, uuid(s, n), "STARTED") # <<>>

\* PROGRESS, the document delta and COMPLETED have each been published once
\* with the n-th id of session s, and the fragment is in the document
InvocationThrough(s, n) ==
  /\ Len(ToolEventsOf(s, uuid(s, n), "PROGRESS")) = 1
  /\ Len(DeltasOf(s, uuid(s, n))) = 1
  /\ Len(ToolEventsOf(s, uuid(s, n), "COMPLETED")) = 1
  /\ IsSubstring(DeltasOf(s, uuid(s, n))[1].payload.html, BodyOf(sessions, s))

\* C40: an invocation for which STARTED has been published goes on to
\* publish PROGRESS, commit its fragment, publish the document delta and
\* publish COMPLETED, all with its id; and no tool-lifecycle event of type
\* ERROR is ever published.
C40_StartedInvocationCompletes ==
  /\ [](\A s \in AllIds : \A i \in 1..Len(SessionEvents(s)) :
          SessionEvents(s)[i].kind = "toolEvent" =>
            SessionEvents(s)[i].payload.type \in {"STARTED", "PROGRESS", "COMPLETED"})
  /\ \A s \in ClientIds : \A n \in LiveIds :
       InvocationStarted(s, n) ~> InvocationThrough(s, n)

\* a run that was rejected for the arguments of one call while the other
\* call of the step was under way, and that call has got through
C40_Witness ==
  \E s \in SessionIds : \E n \in LiveIds :
    /\ Len(turns[s]) = 1
    /\ turns[s][1].pc = "failed"
    /\ turns[s][1].error = "ToolInputParsingException"
    /\ \E c \in 1..Len(turns[s][1].calls) : turns[s][1].calls[c].pc = "rejected"
    /\ InvocationStarted(s, n)
    /\ InvocationThrough(s, n)

====
